---------------------------- MODULE Spec2Model ----------------------------
(***************************************************************************)
(* Synchronization pipeline (app/ingest.py), response cache                *)
(* (app/page_cache.py) and cached-query entry point (app/main.py) of the   *)
(* Rick & Morty characters service, as a state machine.                    *)
(*                                                                         *)
(* Several application instances share one database (table `characters`   *)
(* and the engine's advisory-lock table).  Each instance owns a            *)
(* process-local _last_refresh_ts, a PageCache and a per-key lock table.   *)
(* Every `await` of the code is a step boundary: the code between two      *)
(* awaits runs atomically on the event loop.                               *)
(***************************************************************************)
EXTENDS Integers, Sequences, FiniteSets, TLC

(***************************************************************************)
(* Bounds of the model.                                                    *)
(***************************************************************************)
MaxTime == 2
\* The lifespan of an instance is followed up to MaxUptime.
MaxUptime == 3
\* Direct calls of upsert_characters: at most MaxCalls calls of at most
\* MaxItems items.
MaxCalls == 3
MaxItems == 2

(***************************************************************************)
(* Program constants.  REFRESH_TTL, _PAGE_TTL and _PAGE_MAX are read from  *)
(* the environment by the code; the model runs the configuration           *)
(* REFRESH_TTL=1, PAGE_CACHE_TTL=1, PAGE_CACHE_MAX=2 with a clock that     *)
(* ticks in whole seconds.                                                 *)
(***************************************************************************)
REFRESH_TTL == 1
REFRESH_INTERVAL == 1
PAGE_TTL == 1
PAGE_MAX == 2
SEED_LOCK_KEY == 12648430
REFRESH_LOCK_KEY == 12513261
NoTs == -1

Instances == {"i1", "i2"}
Readers == {"r1", "r2", "r3"}
NoReader == "none"
\* The instance whose /characters requests are modelled.
Local == "i1"
LockKeys == {SEED_LOCK_KEY, REFRESH_LOCK_KEY}

\* Who holds an advisory lock: nobody, the session of an instance's running
\* invocation (get_session yields a new session per invocation), or the session
\* of an invocation that has ended without the unlock taking effect.
NoSession == "none"
Ended == "ended"

(***************************************************************************)
(* Upstream records.  Strings that the code inspects by prefix are         *)
(* sequences of characters.                                                *)
(***************************************************************************)
Earth == <<"E", "a", "r", "t", "h">>
EarthC137 == <<"E", "a", "r", "t", "h", " ", "C">>
Mars == <<"M", "a", "r", "s">>

StartsWith(s, prefix) ==
    /\ Len(s) >= Len(prefix)
    /\ SubSeq(s, 1, Len(prefix)) = prefix

RawChar(id, name, status, species, hasOrigin, originName) ==
    [id |-> id, name |-> name, status |-> status, species |-> species,
     origin |-> [present |-> hasOrigin, name |-> originName]]

Beth == RawChar(1, "Beth", "Alive", "Human", TRUE, Earth)
Morty == RawChar(2, "Morty", "Alive", "Human", TRUE, EarthC137)
Birdperson == RawChar(3, "Birdperson", "Alive", "Alien", TRUE, Mars)
Ghost == RawChar(4, "Ghost", "Dead", "Human", FALSE, <<>>)

\* What fetch_all_characters can return: the upstream's collection at that time.
UpstreamResponses ==
    { <<Birdperson, Ghost>>, <<Beth, Morty, Ghost>> }

\* (ch.get("origin") or {}).get("name") or ""
OriginName(ch) == IF ch.origin.present THEN ch.origin.name ELSE <<>>

Keep(ch) ==
    /\ ch.species = "Human"
    /\ ch.status = "Alive"
    /\ StartsWith(OriginName(ch), Earth)

Slim(ch) ==
    [id |-> ch.id, name |-> ch.name, status |-> ch.status,
     species |-> ch.species, origin |-> OriginName(ch)]

RECURSIVE filter_character_results(_)
filter_character_results(characters) ==
    IF characters = <<>> THEN <<>>
    ELSE LET ch == Head(characters)
             rest == filter_character_results(Tail(characters))
         IN IF Keep(ch) THEN <<Slim(ch)>> \o rest ELSE rest

(***************************************************************************)
(* The `characters` table: a function from the ids present to their rows.  *)
(***************************************************************************)
EmptyStore == [id \in {} |-> 0]

\* A variant that leaves an existing row as it is.
MergeInsertOnly(st, it) ==
    [id \in DOMAIN st \cup {it.id} |-> IF id \in DOMAIN st THEN st[id] ELSE it]

\* session.merge(a Character built from the item): insert the row or overwrite it by primary key.
Merge(st, it) ==
    [id \in DOMAIN st \cup {it.id} |-> IF id = it.id THEN it ELSE st[id]]

RECURSIVE MergeAll(_, _)
MergeAll(st, items) ==
    IF items = <<>> THEN st ELSE MergeAll(Merge(st, Head(items)), Tail(items))

count_characters(st) == Cardinality(DOMAIN st)

\* The records given to direct calls of upsert_characters: three ids, each
\* under two names.
UpsertRecords ==
    {Slim(RawChar(id, name, "Alive", "Human", TRUE, Earth)) :
        id \in 1..3, name \in {"Beth", "Morty"}}

UpsertInputs == UNION {[1..n -> UpsertRecords] : n \in 0..MaxItems}


(***************************************************************************)
(* crud.list_characters: the total count and one page, sorted in SQL.      *)
(* Names are ordered by NameRank.  The rows of the model have distinct     *)
(* ids and distinct names, so ORDER BY never meets two equal keys.         *)
(***************************************************************************)
NameRank(name) ==
    CASE name = "Beth" -> 1
      [] name = "Morty" -> 2
      [] OTHER -> 3

SortKey(row, sort) == IF sort = "name" THEN NameRank(row.name) ELSE row.id

Before(a, b, sort, order) ==
    LET ka == SortKey(a, sort)
        kb == SortKey(b, sort)
    IN IF order = "asc" THEN ka < kb ELSE ka > kb

RECURSIVE OrderBy(_, _, _)
OrderBy(rows, sort, order) ==
    IF rows = {} THEN <<>>
    ELSE LET first == CHOOSE a \in rows :
                        \A b \in rows \ {a} : Before(a, b, sort, order)
         IN <<first>> \o OrderBy(rows \ {first}, sort, order)

Min(a, b) == IF a < b THEN a ELSE b

\* .offset((page - 1) * page_size).limit(page_size)
PageSlice(seq, page, page_size) ==
    SubSeq(seq, (page - 1) * page_size + 1, Min(Len(seq), page * page_size))

list_total(st) == Cardinality(DOMAIN st)

list_rows(st, sort, order, page, page_size) ==
    PageSlice(OrderBy({st[id] : id \in DOMAIN st}, sort, order), page, page_size)

\* math.ceil(total_count / page_size) if total_count else 0
TotalPages(total_count, page_size) ==
    IF total_count # 0 THEN (total_count + page_size - 1) \div page_size ELSE 0

OutOfRange(total_pages, page) ==
    \/ (total_pages > 0 /\ page > total_pages)
    \/ (total_pages = 0 /\ page > 1)

\* The response of /characters; late is not part of it: it records that the
\* count query read the table as it was before a refresh that has since
\* invalidated the cache.
BuildResp(key, rows, total_count, late) ==
    LET total_pages == TotalPages(total_count, key.page_size)
        out_of_range == OutOfRange(total_pages, key.page)
    IN [page |-> key.page, page_size |-> key.page_size,
        total_count |-> total_count, total_pages |-> total_pages,
        has_prev |-> (key.page > 1) /\ ~out_of_range,
        has_next |-> key.page < total_pages,
        out_of_range |-> out_of_range,
        results |-> IF out_of_range THEN <<>> ELSE rows,
        late |-> late]

(***************************************************************************)
(* PageCache: _store is an OrderedDict, here the sequence of its entries   *)
(* [key, ts, val] from least to most recently used.                        *)
(***************************************************************************)
PageKey(sort, order, page, page_size) ==
    [sort |-> sort, order |-> order, page |-> page, page_size |-> page_size]

K1 == PageKey("id", "asc", 1, 1)
K2 == PageKey("name", "desc", 2, 1)
Keys == {K1, K2}

Has(c, key) == \E j \in 1..Len(c) : c[j].key = key
IndexOf(c, key) == CHOOSE j \in 1..Len(c) : c[j].key = key
Without(c, key) == SelectSeq(c, LAMBDA e : e.key # key)
\* A variant without the LRU bump of get.
MoveToEndNot(c, key) == c
MoveToEnd(c, key) == Without(c, key) \o <<c[IndexOf(c, key)]>>

\* A variant that expires an entry when its age reaches the TTL.
ExpiredAtTtl(ts, t) == t - ts >= PAGE_TTL
\* time.time() - ts > self._ttl
Expired(ts, t) == t - ts > PAGE_TTL

\* get: [hit, val, c]: whether a fresh value is returned, it, and _store after.
get(c, key, t) ==
    IF ~Has(c, key) THEN [hit |-> FALSE, c |-> c]
    ELSE LET e == c[IndexOf(c, key)]
         IN IF Expired(e.ts, t)
            THEN [hit |-> FALSE, c |-> Without(c, key)]
            ELSE [hit |-> TRUE, val |-> e.val, c |-> MoveToEnd(c, key)]

\* A variant that tolerates one entry more than the capacity.
EvictLate(c) == IF Len(c) > PAGE_MAX + 1 THEN Tail(c) ELSE c
RECURSIVE Evict(_)
Evict(c) == IF Len(c) > PAGE_MAX THEN Evict(Tail(c)) ELSE c

\* put: set the entry (in place if present), move it to the end, evict.
put(c, key, value, t) ==
    Evict(Without(c, key) \o <<[key |-> key, ts |-> t, val |-> value]>>)

(***************************************************************************)
(* api._request_with_retry and api.fetch_all_characters.  Delays are in     *)
(* half seconds: the first backoff of 0.5 s is 1, the cap of 8.0 s is 16.   *)
(***************************************************************************)
MAX_RETRIES == 3
InitialBackoff == 1
BackoffCap == 16
\* The upstream's collection has at most MaxPages pages.
MaxPages == 2

\* A Retry-After header: absent, a string of digits, or another string that
\* is no HTTP-date.
NoHeader == [kind |-> "absent", secs |-> 0]
Digits(n) == [kind |-> "digits", secs |-> n]
Junk == [kind |-> "junk", secs |-> 0]
Headers == {NoHeader, Digits(1), Junk}

\* More Retry-After values: the empty string, an HTTP-date that lies secs
\* seconds after the moment it is parsed (before it when secs is negative),
\* and a string of characters that str.isdigit accepts and float rejects,
\* such as superscript digits.
EmptyHeader == [kind |-> "empty", secs |-> 0]
HttpDate(n) == [kind |-> "date", secs |-> n]
NonDecimalDigits == [kind |-> "nondecimal", secs |-> 0]
RetryHeaders ==
    Headers \cup {EmptyHeader, Digits(0), Digits(9), HttpDate(-1), HttpDate(0),
                  HttpDate(1), HttpDate(9), NonDecimalDigits}

\* _parse_retry_after: the seconds to wait, here in half seconds, or None;
\* ValueError when float(value) raises, which nothing in the function catches.
None == -1
ValueError == -2
parse_retry_after(value) ==
    IF value.kind \in {"absent", "empty"} THEN None
    ELSE IF value.kind = "digits" THEN 2 * value.secs
    ELSE IF value.kind = "nondecimal" THEN ValueError
    ELSE IF value.kind = "date"
    THEN 2 * (IF value.secs > 0 THEN value.secs ELSE 0)
    ELSE None

\* A variant that retries every error status.
RetryableAnyError(status_code) == status_code >= 400

\* r.status_code == 429 or 500 <= r.status_code < 600
Retryable(status_code) ==
    status_code = 429 \/ (500 <= status_code /\ status_code < 600)

\* r.raise_for_status() passes.
IsSuccess(status_code) == 200 <= status_code /\ status_code < 300

\* The records of the upstream's page `page`.
PageResults(page) ==
    CASE page = 1 -> <<Beth, Morty>>
      [] page = 2 -> <<Ghost>>
      [] OTHER -> <<Birdperson>>

\* What client.get can do for a page: a response, or a transport error
\* (status_code 0 here).
Answer(status_code, header, next) ==
    [status_code |-> status_code, header |-> header, next |-> next]

UpstreamAnswers(page) ==
    {Answer(200, NoHeader, next) : next \in {b \in BOOLEAN : b => page < MaxPages}}
    \cup {Answer(404, NoHeader, FALSE), Answer(0, NoHeader, FALSE)}
    \cup {Answer(429, h, FALSE) : h \in Headers}
    \cup {Answer(500, h, FALSE) : h \in {NoHeader, Digits(1)}}

\* The concatenation of the upstream's pages 1..n.
RECURSIVE PagesUpTo(_)
PagesUpTo(n) == IF n = 0 THEN <<>> ELSE PagesUpTo(n - 1) \o PageResults(n)

\* A variant that ignores the Retry-After header.
DelayForBackoffOnly(header, backoff) == [halves |-> backoff, jitter |-> TRUE]

\* delay = ra if ra is not None else backoff + random.random() * 0.25; jitter
\* says that the random part, less than 0.25 s, is added to halves.
DelayFor(header, backoff) ==
    LET ra == parse_retry_after(header)
    IN IF ra # None THEN [halves |-> ra, jitter |-> FALSE]
       ELSE [halves |-> backoff, jitter |-> TRUE]

\* seen: the answers received so far, each with the page it was for; sleeps:
\* the delays slept so far, each with the page it was for; more: whether the
\* last answer had an info.next.
IdleFx ==
    [pc |-> "idle", page |-> 0, attempt |-> 0, backoff |-> 0, results |-> <<>>,
     outcome |-> "none", status |-> 0, returned |-> <<>>,
     seen |-> <<>>, sleeps |-> <<>>, more |-> FALSE]

\* random.random() * 0.25 in eighths of a second; random.random() is rnd / 2.
RandomValues == {0, 1}

Jitter(rnd) == rnd

\* Half seconds in eighths of a second.
Eighths(halves) == 4 * halves

\* A call of _request_with_retry alone.  max: MAX_RETRIES of the process;
\* requests: the calls of client.get so far; sleeps: the calls of asyncio.sleep
\* so far, of which `honoured` slept a Retry-After; delay: the argument of the
\* last one, in eighths of a second; via: where that argument came from;
\* answer: what the last client.get did.
NoAnswer == [status_code |-> -1, header |-> NoHeader]
IdleRq ==
    [pc |-> "idle", max |-> 0, attempt |-> 0, backoff |-> 0, requests |-> 0,
     sleeps |-> 0, honoured |-> 0, delay |-> 0, via |-> "none",
     answer |-> NoAnswer,
     outcome |-> "none", status |-> 0]

\* The call of wait_for_db made by lifespan.  pings: the calls of ping_db so
\* far; sleeps: the calls of asyncio.sleep so far; failed: the pings that
\* returned False.
IdleWd ==
    [pc |-> "idle", max_attempts |-> 0, attempt |-> 0, delay |-> 0,
     pings |-> 0, failed |-> 0, sleeps |-> 0, outcome |-> "none"]

\* The keys and values of direct calls of the cache, one key more than the
\* capacity.
K3 == PageKey("name", "asc", 1, 2)
CacheKeys == Keys \cup {K3}
CacheValues == {BuildResp(K1, <<>>, n, FALSE) : n \in {0, 1}}

\* The keys of the entries of _store.
KeysOf(c) == {c[j].key : j \in 1..Len(c)}

\* put: for each key, the value and time of its last put, unless invalidate_all
\* or an eviction has removed it since; touched: the keys of the entries, from
\* the least to the most recently touched by a put or by a get that returned a
\* value; last: the last call.
NoCall == [op |-> "none", key |-> K1, hit |-> FALSE, evicted |-> {},
           evictedTs |-> 0, lock |-> 0]
IdleCx == [put |-> [k \in {} |-> 0], touched |-> <<>>, last |-> NoCall]

(***************************************************************************)
(* State.                                                                  *)
(***************************************************************************)
VARIABLES
    engine,          \* "pg": the engine has pg_*_advisory_lock; "other": it has not
    now,             \* time.time(), in seconds
    store,           \* the shared `characters` table
    advLock,         \* the engine's advisory-lock table: key -> holding session
    last_refresh_ts, \* ingest._last_refresh_ts of each instance
    pl,              \* each instance's current seed/refresh invocation
    cache,           \* PageCache._store of each instance, oldest entry first
    locks,           \* PageCache._locks of the Local instance: key -> lock
    lockObj,         \* the asyncio.Lock objects created so far
    rd,              \* each /characters request of the Local instance
    seedCommits,     \* seed upserts of n > 0 rows committed so far (at most 2
                     \* are counted) by invocations whose lock attempt answered
    fx,              \* a call of api.fetch_all_characters and what it has seen
    cx,              \* what direct calls of the Local PageCache have done
    rf,              \* the lifespan of the Local instance and its _refresher task
    ux,              \* what direct calls of crud.upsert_characters have been given
    rq,              \* a call of api._request_with_retry under some MAX_RETRIES
    wd               \* the lifespan's call of db.wait_for_db

plvars == <<engine, store, advLock, last_refresh_ts, pl, seedCommits, fx, cx,
            rf, ux, rq, wd>>
rdvars == <<locks, lockObj, rd>>
vars == <<now, plvars, cache, rdvars>>

IdlePl ==
    [pc |-> "idle", started |-> FALSE, op |-> "none", lockRes |-> "none",
     have |-> FALSE, filtered |-> <<>>, n |-> 0, exit |-> "none",
     outcome |-> "none", ret |-> 0,
     nCount |-> 0, nFetch |-> 0, nUpsert |-> 0, nUnlock |-> 0,
     rows0 |-> 0, matched |-> 0, ierr |-> FALSE]

NoResp == [status |-> 0]

IdleRd ==
    [pc |-> "new", key |-> K1, lock |-> 0, total |-> 0, rows |-> <<>>,
     status |-> 0, resp |-> NoResp,
     listed |-> FALSE, waited |-> FALSE,
     old |-> FALSE, late |-> FALSE, before |-> FALSE, cerr |-> {}]

FreeLock == [holder |-> NoReader, waiters |-> <<>>]

\* pc: "off" before the lifespan yields, "created" the task not yet run,
\* "cycle" in refresh_if_stale, "waiting" in wait_for, "cancelling" a
\* CancelledError travelling up through refresh_if_stale, "ended".
\* stop: stop_event; wakeAt: when the timeout of wait_for fires; prev: how
\* the last cycle ended; at: where the task was when the lifespan stopped it;
\* how: how the task ended.
IdleRf ==
    [pc |-> "off", stop |-> FALSE, wakeAt |-> 0, prev |-> "none",
     at |-> "none", stoppedAt |-> NoTs, endedAt |-> NoTs, how |-> "none"]

\* seen: the ids given so far; last: for each, the last record given;
\* calls: the number of calls; given: the number of items of the last call;
\* ret: what it returned.
IdleUx == [seen |-> {}, last |-> EmptyStore, calls |-> 0, given |-> 0,
           ret |-> 0]

Init ==
    /\ engine \in {"pg", "other"}
    /\ now = 0
    /\ store = EmptyStore
    /\ advLock = [k \in LockKeys |-> NoSession]
    /\ last_refresh_ts = [i \in Instances |-> NoTs]
    /\ pl = [i \in Instances |-> IdlePl]
    /\ cache = [i \in Instances |-> <<>>]
    /\ locks = [k \in {} |-> 0]
    /\ lockObj = <<>>
    /\ rd = [r \in Readers |-> IdleRd]
    /\ seedCommits = 0
    /\ fx = IdleFx
    /\ cx = IdleCx
    /\ rf = IdleRf
    /\ ux = IdleUx
    /\ rq = IdleRq
    /\ wd = IdleWd

(***************************************************************************)
(* _pg_advisory_lock                                                       *)
(***************************************************************************)
LockKeyOf(op) == IF op = "seed" THEN SEED_LOCK_KEY ELSE REFRESH_LOCK_KEY

\* What `SELECT pg_try_advisory_lock(:k)` can do for session s.
TryLockResults(k, s) ==
    IF engine = "pg"
    THEN {IF advLock[k] \in {NoSession, s} THEN "true" ELSE "false", "raised"}
    ELSE {"raised", "null"}

\* A variant that fails closed: only a granted lock counts as held.
HaveOfFailClosed(res) == res = "true"

\* A variant that takes any answer of the database for a granted lock.
HaveOfAnyAnswer(res) == TRUE

\* have = bool(scalar) if scalar is not None else True; True when it raised.
HaveOf(res) ==
    CASE res = "true" -> TRUE
      [] res = "false" -> FALSE
      [] res = "null" -> TRUE
      [] res = "raised" -> TRUE

\* A variant whose finally clause always issues the unlock statement.
IssuesUnlockAlways(have) == TRUE

\* The finally clause: the unlock statement is issued only if have.
IssuesUnlock(have) == have

Me(i) == i

\* The body's `return 0` / `return n` / exception leaves through the finally
\* clause: with have, the unlock statement is the next await.
Leave(p, exit, ret) ==
    IF IssuesUnlock(p.have)
    THEN [p EXCEPT !.pc = "unlock", !.exit = exit, !.ret = ret,
                   !.filtered = <<>>]
    ELSE [p EXCEPT !.pc = "idle", !.exit = exit, !.outcome = exit, !.ret = ret,
                   !.filtered = <<>>]

\* The place of an await in the fixed order of a seed or refresh.
StepRank(pc) ==
    CASE pc = "trylock" -> 1
      [] pc = "count" -> 2
      [] pc = "fetch" -> 3
      [] pc = "upsert" -> 4
      [] pc = "post" -> 5
      [] pc = "unlock" -> 6
      [] OTHER -> 7

Begin(i, op) ==
    [IdlePl EXCEPT !.pc = "trylock", !.started = TRUE, !.op = op,
                   !.rows0 = count_characters(store)]

(***************************************************************************)
(* initial_sync_if_empty and refresh_if_stale                              *)
(***************************************************************************)
\* The lifespan of instance i has reached its yield: initial_sync_if_empty
\* has returned (an exception aborts the startup), the refresher task runs and
\* requests are served.
Up(i) ==
    \/ pl[i].op = "refresh"
    \/ pl[i].op = "seed" /\ pl[i].pc = "idle" /\ pl[i].outcome = "return"

InitialSyncCall(i) ==
    /\ pl[i].pc = "idle"
    /\ ~pl[i].started
    /\ pl' = [pl EXCEPT ![i] = Begin(i, "seed")]
    /\ UNCHANGED <<seedCommits, engine, rq, wd, ux, rf, fx, cx, now, store, advLock, last_refresh_ts, cache, rdvars>>

\* A variant with a strict comparison.
StillFreshStrict(ts, t) == ts # NoTs /\ (t - ts) < REFRESH_TTL

\* _last_refresh_ts is not None and (now - _last_refresh_ts) <= REFRESH_TTL
StillFresh(ts, t) == ts # NoTs /\ (t - ts) <= REFRESH_TTL

\* refresh_if_stale up to its first await, or to its `return 0`.
RefreshBegin(i) ==
    IF StillFresh(last_refresh_ts[i], now)
    THEN [Begin(i, "refresh") EXCEPT
            !.pc = "idle", !.exit = "return",
            !.outcome = "return", !.ret = 0]
    ELSE Begin(i, "refresh")

RefreshCall(i) ==
    /\ pl[i].pc = "idle"
    /\ Up(i)
    /\ pl' = [pl EXCEPT ![i] = RefreshBegin(i)]
    /\ UNCHANGED <<seedCommits, engine, rq, wd, ux, rf, fx, cx, now, store, advLock, last_refresh_ts, cache, rdvars>>

\* A variant without the `if not have_lock: return 0`.
BodyRunsAnyway(have_lock) == TRUE

\* Whether the body goes on after `async with ... as have_lock`.
BodyRuns(have_lock) == have_lock

TryLock(i) ==
    /\ pl[i].pc = "trylock"
    /\ \E res \in TryLockResults(LockKeyOf(pl[i].op), Me(i)) :
         LET p == [pl[i] EXCEPT !.lockRes = res, !.have = HaveOf(res)]
         IN /\ advLock' = IF res = "true"
                          THEN [advLock EXCEPT ![LockKeyOf(p.op)] = Me(i)]
                          ELSE advLock
            /\ pl' = [pl EXCEPT ![i] =
                        IF BodyRuns(p.have)
                        THEN [p EXCEPT !.pc = IF p.op = "seed" THEN "count"
                                              ELSE "fetch"]
                        ELSE Leave(p, "return", 0)]
    /\ UNCHANGED <<seedCommits, engine, rq, wd, ux, rf, fx, cx, now, store, last_refresh_ts, cache, rdvars>>

\* A variant whose emptiness check never finds rows.
AlreadyPopulatedNever(count) == count < 0

\* if count > 0: return 0
AlreadyPopulated(count) == count > 0

\* count = await crud.count_characters(session)
CountStep(i) ==
    /\ pl[i].pc = "count"
    /\ \E ok \in BOOLEAN :
         LET p == [pl[i] EXCEPT !.nCount = @ + 1]
         IN pl' = [pl EXCEPT ![i] =
                     IF ~ok THEN Leave(p, "raise", 0)
                     ELSE IF AlreadyPopulated(count_characters(store))
                          THEN Leave(p, "return", 0)
                          ELSE [p EXCEPT !.pc = "fetch"]]
    /\ UNCHANGED <<seedCommits, engine, rq, wd, ux, rf, fx, cx, now, store, advLock, last_refresh_ts, cache, rdvars>>

\* self._store.clear()
invalidate_all(c) == <<>>

\* A variant that swallows a failed fetch and returns 0.
FetchStepSwallowing(i) ==
    /\ pl[i].pc = "fetch"
    /\ LET p == [pl[i] EXCEPT !.nFetch = @ + 1]
       IN \/ \E raw \in UpstreamResponses :
               LET filtered == filter_character_results(raw)
               IN pl' = [pl EXCEPT ![i] =
                           [p EXCEPT !.pc = "upsert", !.filtered = filtered,
                                     !.matched = Len(filtered)]]
          \/ pl' = [pl EXCEPT ![i] = Leave(p, "return", 0)]
    /\ UNCHANGED <<seedCommits, engine, rq, wd, ux, rf, fx, cx, now, store, advLock, last_refresh_ts, cache, rdvars>>

\* A variant that clears the page cache as soon as the fetch has returned.
FetchStepInvalidating(i) ==
    /\ pl[i].pc = "fetch"
    /\ LET p == [pl[i] EXCEPT !.nFetch = @ + 1]
       IN \/ /\ \E raw \in UpstreamResponses :
                  LET filtered == filter_character_results(raw)
                  IN pl' = [pl EXCEPT ![i] =
                              [p EXCEPT !.pc = "upsert", !.filtered = filtered,
                                        !.matched = Len(filtered)]]
             /\ cache' = [cache EXCEPT ![i] = invalidate_all(@)]
          \/ /\ pl' = [pl EXCEPT ![i] = Leave(p, "raise", 0)]
             /\ UNCHANGED cache
    /\ UNCHANGED <<seedCommits, engine, rq, wd, ux, rf, fx, cx, now, store, advLock, last_refresh_ts, rdvars>>

\* raw = await api.fetch_all_characters(); filtered = filter(raw)
FetchStep(i) ==
    /\ pl[i].pc = "fetch"
    /\ LET p == [pl[i] EXCEPT !.nFetch = @ + 1]
       IN \/ \E raw \in UpstreamResponses :
               LET filtered == filter_character_results(raw)
               IN pl' = [pl EXCEPT ![i] =
                           [p EXCEPT !.pc = "upsert", !.filtered = filtered,
                                     !.matched = Len(filtered)]]
          \/ pl' = [pl EXCEPT ![i] = Leave(p, "raise", 0)]
    /\ UNCHANGED <<seedCommits, engine, rq, wd, ux, rf, fx, cx, now, store, advLock, last_refresh_ts, cache, rdvars>>

\* Bookkeeping for the requests in flight (no code): a commit that changes the
\* table makes what their count query has read old; an invalidation of the
\* Local cache happens before the end of every request in flight, and makes a
\* request holding old data late, i.e. its response is computed from the table
\* as it was before that refresh.
Outdated(requests) ==
    [r \in DOMAIN requests |->
        IF requests[r].pc \in {"q_page", "build"}
        THEN [requests[r] EXCEPT !.old = TRUE] ELSE requests[r]]

Overtaken(requests) ==
    [r \in DOMAIN requests |->
        IF requests[r].pc \in {"new", "done"} THEN requests[r]
        ELSE [requests[r] EXCEPT
                !.before = TRUE,
                !.late = @ \/ (requests[r].old
                               /\ requests[r].pc \in {"q_page", "build"})]]

\* n = await crud.upsert_characters(session, filtered): merge each, commit once.
upsert_characters(st, items) == [st |-> MergeAll(st, items), n |-> Len(items)]

UpsertCommit(i) ==
    /\ pl[i].pc = "upsert"
    /\ LET p == [pl[i] EXCEPT !.nUpsert = @ + 1]
           r == upsert_characters(store, p.filtered)
       IN /\ store' = r.st
          /\ pl' = [pl EXCEPT ![i] = [p EXCEPT !.pc = "post", !.n = r.n]]
          /\ rd' = IF r.st # store THEN Outdated(rd) ELSE rd
          /\ seedCommits' =
               IF p.op = "seed" /\ r.n > 0 /\ p.lockRes \in {"true", "false"}
               THEN Min(seedCommits + 1, 2) ELSE seedCommits
    /\ UNCHANGED <<engine, rq, wd, ux, rf, fx, cx, now, advLock, last_refresh_ts, cache, locks, lockObj>>

\* A variant that stamps the refresh time before the upsert is known to have
\* succeeded.
UpsertRaiseStamping(i) ==
    /\ pl[i].pc = "upsert"
    /\ pl' = [pl EXCEPT ![i] =
                Leave([pl[i] EXCEPT !.nUpsert = @ + 1], "raise", 0)]
    /\ last_refresh_ts' = [last_refresh_ts EXCEPT ![i] = now]
    /\ UNCHANGED <<seedCommits, engine, rq, wd, ux, rf, fx, cx, now, store, advLock, cache, rdvars>>

\* upsert_characters raises (the commit fails): the exception propagates.
UpsertRaise(i) ==
    /\ pl[i].pc = "upsert"
    /\ pl' = [pl EXCEPT ![i] =
                Leave([pl[i] EXCEPT !.nUpsert = @ + 1], "raise", 0)]
    /\ UNCHANGED <<seedCommits, engine, rq, wd, ux, rf, fx, cx, now, store, advLock, last_refresh_ts,
                   cache, rdvars>>

UpsertStep(i) == UpsertCommit(i) \/ UpsertRaise(i)

\* A variant that clears the cache whatever the upsert count.
AfterUpsertCacheAlways(c, n) == invalidate_all(c)

\* if n: page_cache.invalidate_all()
AfterUpsertCache(c, n) == IF n # 0 THEN invalidate_all(c) ELSE c

\* A variant in which an exception of invalidate_all leaves the function.
AfterInvalidateErrorRaising(n) == [exit |-> "raise", ret |-> 0, stamps |-> FALSE]

\* except Exception around page_cache.invalidate_all(): logged, the function
\* goes on.
AfterInvalidateError(n) == [exit |-> "return", ret |-> n, stamps |-> TRUE]

\* After the commit: invalidate the cache if n, set _last_refresh_ts, return n.
\* raises: whether page_cache.invalidate_all raises (it is called only if n).
PostUpsertWith(i, raises) ==
    /\ pl[i].pc = "post"
    /\ raises => pl[i].n # 0
    /\ LET out == IF raises THEN AfterInvalidateError(pl[i].n)
                  ELSE [exit |-> "return", ret |-> pl[i].n, stamps |-> TRUE]
       IN /\ cache' = IF raises THEN cache
                      ELSE [cache EXCEPT ![i] =
                              AfterUpsertCache(cache[i], pl[i].n)]
          /\ rd' = IF pl[i].n # 0 /\ i = Local /\ ~raises
                   THEN Overtaken(rd) ELSE rd
          /\ last_refresh_ts' = IF out.stamps
                                THEN [last_refresh_ts EXCEPT ![i] = now]
                                ELSE last_refresh_ts
          /\ pl' = [pl EXCEPT ![i] =
                      Leave([pl[i] EXCEPT !.ierr = raises], out.exit, out.ret)]
    /\ UNCHANGED <<seedCommits, engine, rq, wd, ux, rf, fx, cx, now, store, advLock, locks, lockObj>>

PostUpsert(i) == PostUpsertWith(i, FALSE)

\* What `SELECT pg_advisory_unlock(:k)` can do; an error is suppressed.
UnlockResults == IF engine = "pg" THEN {"ok", "raised"} ELSE {"raised"}

Unlock(i) ==
    /\ pl[i].pc = "unlock"
    /\ \E res \in UnlockResults :
         LET k == LockKeyOf(pl[i].op)
         IN advLock' = IF advLock[k] = Me(i)
                       THEN [advLock EXCEPT ![k] = IF res = "ok" THEN NoSession
                                                   ELSE Ended]
                       ELSE advLock
    /\ pl' = [pl EXCEPT ![i] = [pl[i] EXCEPT !.pc = "idle",
                                             !.outcome = pl[i].exit,
                                             !.nUnlock = @ + 1]]
    /\ UNCHANGED <<seedCommits, engine, rq, wd, ux, rf, fx, cx, now, store, last_refresh_ts, cache, rdvars>>

(***************************************************************************)
(* GET /characters (main.characters) on the Local instance                 *)
(***************************************************************************)
\* A variant that hands out a new lock on every call.
lock_for_unshared(lt, lo, key) ==
    [lock |-> Len(lo) + 1,
     lt |-> [k \in DOMAIN lt \cup {key} |->
               IF k = key THEN Len(lo) + 1 ELSE lt[k]],
     lo |-> Append(lo, FreeLock)]

\* A variant that registers one lock for all keys.
lock_for_any(lt, lo, key) ==
    [lock |-> 1,
     lt |-> [k \in DOMAIN lt \cup {key} |-> 1],
     lo |-> IF lo = <<>> THEN <<FreeLock>> ELSE lo]

\* lock_for: the lock registered for key, created and registered if absent.
lock_for(lt, lo, key) ==
    IF key \in DOMAIN lt
    THEN [lock |-> lt[key], lt |-> lt, lo |-> lo]
    ELSE [lock |-> Len(lo) + 1,
          lt |-> [k \in DOMAIN lt \cup {key} |->
                    IF k = key THEN Len(lo) + 1 ELSE lt[k]],
          lo |-> Append(lo, FreeLock)]

\* A variant whose acquire never waits.
CanAcquireAlways(l) == TRUE

\* A variant that also waits while a seed or refresh of the instance runs.
CanAcquireWhenNoRefresh(l) ==
    l.holder = NoReader /\ l.waiters = <<>> /\ pl[Local].pc = "idle"

\* asyncio.Lock.acquire returns at once iff the lock is free and nobody waits.
CanAcquireNow(l) == l.holder = NoReader /\ l.waiters = <<>>

release(lo, id) == [lo EXCEPT ![id].holder = NoReader]

\* HTTPException status for what crud.list_characters raised.
ErrStatus(kind) ==
    CASE kind = "ValueError" -> 400
      [] kind = "OperationalError" -> 503
      [] OTHER -> 500

DbErrors == {"ValueError", "OperationalError", "DatabaseError"}

Finish(rec, status, resp) ==
    [rec EXCEPT !.pc = "done", !.status = status, !.resp = resp,
                !.lock = 0, !.total = 0, !.rows = <<>>,
                !.old = FALSE, !.late = FALSE]

\* A page_cache.get of the handler, inside try/except Exception: a call that
\* raises is recorded and counts as a miss.
guarded_get(c, key, t, raises) ==
    IF raises THEN [hit |-> FALSE, c |-> c] ELSE get(c, key, t)

\* The cache calls of a request that have raised.
Recorded(rec, op, raises) ==
    IF raises THEN [rec EXCEPT !.cerr = @ \cup {op}] ELSE rec

\* Inside `async with lock`, up to the first await: the re-check of the cache
\* and, on a miss, the call of crud.list_characters.
\* [rd, c, lo]: the request, _store and the locks after it.
Recheck(rec0, c, lo, raises) ==
    LET g == guarded_get(c, rec0.key, now, raises)
        rec == Recorded(rec0, "recheck", raises)
    IN IF g.hit
       THEN [rd |-> Finish(rec, 200, g.val), c |-> g.c,
             lo |-> release(lo, rec.lock)]
       ELSE [rd |-> [rec EXCEPT !.pc = "q_total", !.listed = TRUE],
             c |-> g.c, lo |-> lo]

\* raises1, raises2: whether the first get and the re-check raise.
RequestWith(r, key, raises1, raises2) ==
    /\ Up(Local)
    /\ rd[r].pc = "new"
    /\ LET rec == Recorded([IdleRd EXCEPT !.key = key], "get", raises1)
           g == guarded_get(cache[Local], key, now, raises1)
       IN IF g.hit
          THEN /\ rd' = [rd EXCEPT ![r] = Finish(rec, 200, g.val)]
               /\ cache' = [cache EXCEPT ![Local] = g.c]
               /\ UNCHANGED <<locks, lockObj>>
          ELSE LET lf == lock_for(locks, lockObj, key)
                   mine == [rec EXCEPT !.lock = lf.lock]
               IN /\ locks' = lf.lt
                  /\ IF CanAcquireNow(lf.lo[lf.lock])
                     THEN LET x == Recheck(mine, g.c,
                                      [lf.lo EXCEPT ![lf.lock].holder = r],
                                      raises2)
                          IN /\ rd' = [rd EXCEPT ![r] = x.rd]
                             /\ cache' = [cache EXCEPT ![Local] = x.c]
                             /\ lockObj' = x.lo
                     ELSE /\ rd' = [rd EXCEPT ![r] =
                                      [mine EXCEPT !.pc = "waiting",
                                                   !.waited = TRUE]]
                          /\ cache' = [cache EXCEPT ![Local] = g.c]
                          /\ lockObj' = [lf.lo EXCEPT ![lf.lock].waiters =
                                           Append(@, r)]
    /\ UNCHANGED <<now, plvars>>

Request(r, key) == RequestWith(r, key, FALSE, FALSE)

\* The first waiter of a released lock resumes and holds the lock.
\* raises: whether the re-check raises.
WakeWith(r, raises) ==
    /\ rd[r].pc = "waiting"
    /\ LET l == lockObj[rd[r].lock]
       IN /\ l.holder = NoReader
          /\ l.waiters # <<>>
          /\ Head(l.waiters) = r
          /\ LET x == Recheck(rd[r], cache[Local],
                         [lockObj EXCEPT ![rd[r].lock] =
                            [holder |-> r, waiters |-> Tail(l.waiters)]],
                         raises)
             IN /\ rd' = [rd EXCEPT ![r] = x.rd]
                /\ cache' = [cache EXCEPT ![Local] = x.c]
                /\ lockObj' = x.lo
    /\ UNCHANGED <<now, plvars, locks>>

Wake(r) == WakeWith(r, FALSE)

\* A variant in which the error leaves the lock held.
FailHolding(r, kind) ==
    /\ rd' = [rd EXCEPT ![r] = Finish(rd[r], ErrStatus(kind), NoResp)]
    /\ UNCHANGED lockObj

\* An error of crud.list_characters leaves the `async with`: the lock is released.
Fail(r, kind) ==
    /\ rd' = [rd EXCEPT ![r] = Finish(rd[r], ErrStatus(kind), NoResp)]
    /\ lockObj' = release(lockObj, rd[r].lock)

\* list_characters, first statement: the SELECT of the row count.
QTotal(r) ==
    /\ rd[r].pc = "q_total"
    /\ \/ /\ rd' = [rd EXCEPT ![r] = [@ EXCEPT !.pc = "q_page",
                                              !.total = list_total(store)]]
          /\ UNCHANGED lockObj
       \/ \E kind \in DbErrors : Fail(r, kind)
    /\ UNCHANGED <<now, plvars, cache, locks>>

\* list_characters, second statement: the page slice.
QPage(r) ==
    /\ rd[r].pc = "q_page"
    /\ \/ /\ rd' = [rd EXCEPT ![r] =
                      [@ EXCEPT !.pc = "build",
                                !.rows = list_rows(store, rd[r].key.sort,
                                                   rd[r].key.order,
                                                   rd[r].key.page,
                                                   rd[r].key.page_size)]]
          /\ UNCHANGED lockObj
       \/ \E kind \in DbErrors : Fail(r, kind)
    /\ UNCHANGED <<now, plvars, cache, locks>>

\* A variant in which an exception of page_cache.put leaves the handler.
AfterPutErrorRaising(resp) == [status |-> 500, resp |-> NoResp]

\* except Exception around page_cache.put: recorded, resp is returned.
AfterPutError(resp) == [status |-> 200, resp |-> resp]

\* The handler resumes with (rows, total_count): build resp, put, release, return.
\* raises: whether page_cache.put raises.
BuildWith(r, raises) ==
    /\ rd[r].pc = "build"
    /\ LET resp == BuildResp(rd[r].key, rd[r].rows, rd[r].total, rd[r].late)
           out == IF raises THEN AfterPutError(resp)
                  ELSE [status |-> 200, resp |-> resp]
       IN /\ cache' = [cache EXCEPT ![Local] =
                         IF raises THEN @ ELSE put(@, rd[r].key, resp, now)]
          /\ rd' = [rd EXCEPT ![r] = Finish(Recorded(rd[r], "put", raises),
                                            out.status, out.resp)]
          /\ lockObj' = release(lockObj, rd[r].lock)
    /\ UNCHANGED <<now, plvars, locks>>

Build(r) == BuildWith(r, FALSE)

Reader(r) ==
    \/ \E key \in Keys : Request(r, key)
    \/ Wake(r)
    \/ QTotal(r)
    \/ QPage(r)
    \/ Build(r)

\* A request whose calls of page_cache.get and page_cache.put may raise.
FaultyReader(r) ==
    \/ \E key \in Keys, raises1, raises2 \in BOOLEAN :
          RequestWith(r, key, raises1, raises2)
    \/ \E raises \in BOOLEAN : WakeWith(r, raises)
    \/ QTotal(r)
    \/ QPage(r)
    \/ \E raises \in BOOLEAN : BuildWith(r, raises)

(***************************************************************************)
(* A call of api.fetch_all_characters.                                     *)
(***************************************************************************)
FetchAllCall ==
    /\ fx.pc = "idle"
    /\ fx' = [IdleFx EXCEPT !.pc = "get", !.page = 1, !.attempt = 1,
                            !.backoff = InitialBackoff]
    /\ UNCHANGED <<engine, rq, wd, ux, rf, cx, now, store, advLock, last_refresh_ts, pl,
                   seedCommits, cache, rdvars>>

\* The exception leaves _request_with_retry and fetch_all_characters.
Raise(f, outcome, status_code) ==
    [f EXCEPT !.pc = "done", !.outcome = outcome, !.status = status_code,
              !.results = <<>>]

\* A variant without the cap.
NextBackoffUncapped(backoff) == backoff * 2

\* backoff = min(backoff * 2, 8.0)
NextBackoff(backoff) == Min(backoff * 2, BackoffCap)

\* A variant that adds the jitter after a transport error too.
TransportDelayJittered(backoff) == [halves |-> backoff, jitter |-> TRUE]

\* await asyncio.sleep(backoff) of the except clause.
TransportDelay(backoff) == [halves |-> backoff, jitter |-> FALSE]

\* A variant in which attempt and backoff belong to fetch_all_characters and
\* go on from one page to the next.
BudgetCarriedOver(f) == [attempt |-> f.attempt, backoff |-> f.backoff]

\* Each call of _request_with_retry starts with backoff = 0.5 and the first
\* pass of its loop.
BudgetOfNextPage(f) == [attempt |-> 1, backoff |-> InitialBackoff]

\* A variant of the loop that stops after its first page.
HasNextNever(next) == FALSE

\* (data.get("info") or {}).get("next") is truthy.
HasNext(next) == next

\* r = await client.get(...) and what follows it up to the next await, the
\* upstream choosing among `answers`.
ClientGetFrom(answers) ==
    /\ fx.pc = "get"
    /\ \E a \in answers :
         LET f == [fx EXCEPT !.seen = Append(@, [page |-> fx.page,
                                                 status_code |-> a.status_code,
                                                 header |-> a.header]),
                             !.more = a.next]
             slept(d) == [f EXCEPT !.pc = "sleep",
                                   !.sleeps = Append(@, [page |-> fx.page,
                                                         halves |-> d.halves,
                                                         jitter |-> d.jitter])]
         IN fx' =
              IF a.status_code = 0
              THEN slept(TransportDelay(fx.backoff))
              ELSE IF Retryable(a.status_code)
              THEN slept(DelayFor(a.header, fx.backoff))
              ELSE IF ~IsSuccess(a.status_code)
              THEN Raise(f, "status_error", a.status_code)
              ELSE LET results == f.results \o PageResults(fx.page)
                   IN IF HasNext(a.next)
                      THEN [f EXCEPT !.results = results, !.page = @ + 1,
                                     !.attempt = BudgetOfNextPage(fx).attempt,
                                     !.backoff = BudgetOfNextPage(fx).backoff]
                      ELSE [f EXCEPT !.pc = "done", !.outcome = "return",
                                     !.status = a.status_code,
                                     !.results = <<>>, !.returned = results]
    /\ UNCHANGED <<engine, rq, wd, ux, rf, cx, now, store, advLock, last_refresh_ts, pl,
                   seedCommits, cache, rdvars>>

ClientGet == ClientGetFrom(UpstreamAnswers(fx.page))

\* A variant whose loop makes one attempt too many.
HasNextAttemptOffByOne(attempt) == attempt <= MAX_RETRIES

\* The loop goes on after `for attempt in range(1, MAX_RETRIES + 1)`.
HasNextAttempt(attempt) == attempt < MAX_RETRIES

\* await asyncio.sleep(...) returns: the next attempt, or the loop is over and
\* HTTPException(503) is raised.
AsyncSleep ==
    /\ fx.pc = "sleep"
    /\ fx' = IF HasNextAttempt(fx.attempt)
             THEN [fx EXCEPT !.pc = "get", !.attempt = @ + 1,
                             !.backoff = NextBackoff(@)]
             ELSE Raise(fx, "exhausted", 503)
    /\ UNCHANGED <<engine, rq, wd, ux, rf, cx, now, store, advLock, last_refresh_ts, pl,
                   seedCommits, cache, rdvars>>

(***************************************************************************)
(* A call of api._request_with_retry in a process whose MAX_RETRIES is m.  *)
(***************************************************************************)
\* The largest MAX_RETRIES followed.
MaxBudget == 6

\* What client.get can do: a response, or a transport error (status_code 0).
RetryAnswers ==
    {Answer(200, NoHeader, FALSE), Answer(404, NoHeader, FALSE),
     Answer(0, NoHeader, FALSE)}
    \cup {Answer(sc, h, FALSE) : sc \in {429, 503}, h \in RetryHeaders}

\* An exception leaves _request_with_retry.
RaiseRq(q, outcome, status_code) ==
    [q EXCEPT !.pc = "done", !.outcome = outcome, !.status = status_code]

\* A variant whose loop body runs at least once.
LoopEntersAnyway(m) == TRUE

\* range(1, MAX_RETRIES + 1) is not empty.
LoopEnters(m) == m >= 1

\* backoff = 0.5; attempt = 0; the first pass of
\* `for attempt in range(1, MAX_RETRIES + 1)`, or none when the range is empty.
RequestWithRetryCall(m) ==
    /\ rq.pc = "idle"
    /\ rq' = IF LoopEnters(m)
             THEN [IdleRq EXCEPT !.pc = "get", !.max = m, !.attempt = 1,
                                 !.backoff = InitialBackoff]
             ELSE RaiseRq([IdleRq EXCEPT !.max = m,
                                         !.backoff = InitialBackoff],
                          "exhausted", 503)
    /\ UNCHANGED <<engine, wd, ux, rf, fx, cx, now, store, advLock,
                   last_refresh_ts, pl, seedCommits, cache, rdvars>>

\* r = await client.get(...) and what follows it up to the next await.
RetryGet ==
    /\ rq.pc = "get"
    /\ \E a \in RetryAnswers, rnd \in RandomValues :
         LET q == [rq EXCEPT !.requests = @ + 1,
                             !.answer = [status_code |-> a.status_code,
                                         header |-> a.header]]
             slept(delay, via) ==
                 [q EXCEPT !.pc = "sleep", !.sleeps = @ + 1,
                           !.delay = delay, !.via = via]
             ra == parse_retry_after(a.header)
         IN rq' =
              IF a.status_code = 0
              THEN slept(Eighths(rq.backoff), "transport")
              ELSE IF Retryable(a.status_code)
              THEN IF ra = ValueError
                   THEN RaiseRq(q, "value_error", 0)
                   ELSE IF ra # None
                   THEN [slept(Eighths(ra), "retry_after")
                           EXCEPT !.honoured = @ + 1]
                   ELSE slept(Eighths(rq.backoff) + Jitter(rnd), "backoff")
              ELSE IF ~IsSuccess(a.status_code)
              THEN RaiseRq(q, "status_error", a.status_code)
              ELSE [q EXCEPT !.pc = "done", !.outcome = "return",
                             !.status = a.status_code]
    /\ UNCHANGED <<engine, wd, ux, rf, fx, cx, now, store, advLock,
                   last_refresh_ts, pl, seedCommits, cache, rdvars>>

\* await asyncio.sleep(...) returns and backoff = min(backoff * 2, 8.0): the
\* next pass of the loop, or the loop is over and HTTPException(503) is raised.
RetrySleep ==
    /\ rq.pc = "sleep"
    /\ LET q == [rq EXCEPT !.backoff = NextBackoff(@)]
       IN rq' = IF rq.attempt < rq.max
                THEN [q EXCEPT !.pc = "get", !.attempt = @ + 1]
                ELSE RaiseRq(q, "exhausted", 503)
    /\ UNCHANGED <<engine, wd, ux, rf, fx, cx, now, store, advLock,
                   last_refresh_ts, pl, seedCommits, cache, rdvars>>

(***************************************************************************)
(* Direct calls of the Local PageCache.                                    *)
(***************************************************************************)
Restrict(f, S) == [k \in DOMAIN f \cap S |-> f[k]]

CacheGet(key) ==
    LET g == get(cache[Local], key, now)
    IN /\ cache' = [cache EXCEPT ![Local] = g.c]
       /\ cx' = [cx EXCEPT
                   !.touched =
                       LET others == SelectSeq(@, LAMBDA k : k # key)
                       IN IF g.hit THEN Append(others, key) ELSE others,
                   !.last = [NoCall EXCEPT !.op = "get", !.key = key,
                                           !.hit = g.hit]]
       /\ UNCHANGED <<engine, rq, wd, ux, rf, fx, now, store, advLock, last_refresh_ts, pl,
                      seedCommits, rdvars>>

CachePut(key, value) ==
    LET c == put(cache[Local], key, value, now)
        gone == (KeysOf(cache[Local]) \cup {key}) \ KeysOf(c)
    IN /\ cache' = [cache EXCEPT ![Local] = c]
       /\ cx' = [cx EXCEPT
                   !.put = Restrict([k \in DOMAIN @ \cup {key} |->
                                       IF k = key
                                       THEN [value |-> value, t0 |-> now]
                                       ELSE @[k]],
                                    (DOMAIN @ \cup {key}) \ gone),
                   !.touched = SelectSeq(
                                  Append(SelectSeq(@, LAMBDA k : k # key), key),
                                  LAMBDA k : k \notin gone),
                   !.last = [op |-> "put", key |-> key, hit |-> FALSE,
                             evicted |-> gone,
                             evictedTs |->
                                 IF gone # {} /\ gone \subseteq KeysOf(cache[Local])
                                 THEN LET k == CHOOSE k \in gone : TRUE
                                      IN cache[Local][IndexOf(cache[Local], k)].ts
                                 ELSE 0,
                             lock |-> 0]]
       /\ UNCHANGED <<engine, rq, wd, ux, rf, fx, now, store, advLock, last_refresh_ts, pl,
                      seedCommits, rdvars>>

CacheInvalidateAll ==
    /\ cache' = [cache EXCEPT ![Local] = invalidate_all(@)]
    /\ cx' = [IdleCx EXCEPT !.last = [NoCall EXCEPT !.op = "invalidate_all"]]
    /\ UNCHANGED <<engine, rq, wd, ux, rf, fx, now, store, advLock, last_refresh_ts, pl,
                   seedCommits, rdvars>>

\* A direct call of lock_for; last.lock is the lock it returned.
LockFor(key) ==
    LET lf == lock_for(locks, lockObj, key)
    IN /\ locks' = lf.lt
       /\ lockObj' = lf.lo
       /\ cx' = [cx EXCEPT !.last = [NoCall EXCEPT !.op = "lock_for",
                                                   !.key = key,
                                                   !.lock = lf.lock]]
       /\ UNCHANGED <<engine, rq, wd, ux, rf, fx, now, store, advLock,
                      last_refresh_ts, pl, seedCommits, cache, rd>>

(***************************************************************************)
(* Direct calls of crud.upsert_characters.                                 *)
(***************************************************************************)
UpsertCall(items) ==
    /\ ux.calls < MaxCalls
    /\ LET r == upsert_characters(store, items)
           ids == {items[j].id : j \in 1..Len(items)}
           LastOf(id) == items[CHOOSE j \in 1..Len(items) :
                                 /\ items[j].id = id
                                 /\ \A k \in (j + 1)..Len(items) :
                                        items[k].id # id]
       IN /\ store' = r.st
          /\ ux' = [seen |-> ux.seen \cup ids,
                    last |-> [id \in ux.seen \cup ids |->
                                IF id \in ids THEN LastOf(id)
                                ELSE ux.last[id]],
                    calls |-> ux.calls + 1,
                    given |-> Len(items),
                    ret |-> r.n]
    /\ UNCHANGED <<now, engine, rq, wd, advLock, last_refresh_ts, pl, seedCommits,
                   fx, cx, rf, cache, rdvars>>

(***************************************************************************)
(* main.lifespan of the Local instance and its _refresher task.            *)
(***************************************************************************)
\* task = asyncio.create_task(_refresher()), then yield: initial_sync_if_empty
\* has returned.
StartRefresher ==
    /\ rf.pc = "off"
    /\ pl[Local].op = "seed" /\ pl[Local].pc = "idle"
    /\ pl[Local].outcome = "return"
    /\ rf' = [rf EXCEPT !.pc = "created"]
    /\ UNCHANGED <<now, engine, rq, wd, ux, store, advLock, last_refresh_ts, pl,
                   seedCommits, fx, cx, cache, rdvars>>

\* A variant in which only the timeout ends the wait.
WaitOverAtTimeout(f, t) == t >= f.wakeAt

\* await asyncio.wait_for(stop_event.wait(), timeout=interval) is over: the
\* event is set or the timeout has fired.
WaitOver(f, t) == f.stop \/ t >= f.wakeAt

\* while not stop_event.is_set(): n = await ingest.refresh_if_stale(s)
\* at the first run of the task, and after asyncio.TimeoutError: continue.
RefresherCycle ==
    /\ ~rf.stop
    /\ \/ rf.pc = "created"
       \/ rf.pc = "waiting" /\ WaitOver(rf, now)
    /\ pl[Local].pc = "idle"
    /\ pl' = [pl EXCEPT ![Local] = RefreshBegin(Local)]
    /\ rf' = [rf EXCEPT !.pc = "cycle"]
    /\ UNCHANGED <<now, engine, rq, wd, ux, store, advLock, last_refresh_ts,
                   seedCommits, fx, cx, cache, rdvars>>

\* A variant in which an exception of refresh_if_stale ends the task.
AfterCycleDying(outcome) == IF outcome = "raise" THEN "ended" ELSE "waiting"

\* refresh_if_stale returned, or raised into `except Exception`: break, then
\* wait_for.
AfterCycle(outcome) == "waiting"

CycleEnd ==
    /\ rf.pc = "cycle"
    /\ pl[Local].pc = "idle"
    /\ rf' = [rf EXCEPT !.pc = AfterCycle(pl[Local].outcome),
                        !.prev = pl[Local].outcome,
                        !.wakeAt = now + REFRESH_INTERVAL]
    /\ UNCHANGED <<now, engine, rq, wd, ux, store, advLock, last_refresh_ts, pl,
                   seedCommits, fx, cx, cache, rdvars>>

\* The lifespan or the task can run now: the seed has returned, the task has
\* not run yet, its wait is over, the call it awaited has returned, or a
\* cancellation is to be delivered to it.
Ready(f) ==
    \/ f.pc = "off" /\ pl[Local].op = "seed" /\ pl[Local].pc = "idle"
                    /\ pl[Local].outcome = "return"
    \/ f.pc = "created"
    \/ f.pc = "waiting" /\ WaitOver(f, now)
    \/ f.pc \in {"cycle", "cancelling"} /\ pl[Local].pc = "idle"
    \/ f.pc = "cycle" /\ f.stop

\* finally: stop_event.set(); task.cancel(); await task -- while the task is
\* suspended (or has not run yet).
Shutdown ==
    /\ rf.pc \in {"created", "waiting", "cycle"}
    /\ ~rf.stop
    /\ rf.pc = "cycle" => pl[Local].pc # "idle"
    /\ rf' = [rf EXCEPT !.stop = TRUE, !.stoppedAt = now,
                        !.at = IF rf.pc = "cycle" THEN pl[Local].pc ELSE rf.pc]
    /\ UNCHANGED <<now, engine, rq, wd, ux, store, advLock, last_refresh_ts, pl,
                   seedCommits, fx, cx, cache, rdvars>>

\* How a stopped and cancelled task leaves wait_for: with CancelledError, or,
\* where wait_for hands over the result of a wait that completed before the
\* cancellation was delivered, by returning (the loop condition then fails).
StoppedWaitOutcomes == {"cancelled", "returned"}

\* The stopped task is resumed out of its wait, or cancelled before its first
\* run.
StopWakes ==
    /\ rf.stop
    /\ \/ rf.pc = "created"
       \/ rf.pc = "waiting" /\ WaitOver(rf, now)
    /\ \E how \in IF rf.pc = "created" THEN {"cancelled"}
                   ELSE StoppedWaitOutcomes :
         rf' = [rf EXCEPT !.pc = "ended", !.how = how, !.endedAt = now]
    /\ UNCHANGED <<now, engine, rq, wd, ux, store, advLock, last_refresh_ts, pl,
                   seedCommits, fx, cx, cache, rdvars>>

\* CancelledError raised at the await where refresh_if_stale is suspended.  It
\* is no Exception: in the lock attempt it leaves _pg_advisory_lock before the
\* yield; in the body it leaves through the finally clause; in the unlock
\* statement it leaves suppress(Exception), the statement done or not.
Cancelled(p) ==
    IF p.pc = "trylock"
    THEN {[p EXCEPT !.pc = "idle", !.exit = "cancelled",
                    !.outcome = "cancelled"]}
    ELSE IF p.pc = "unlock"
    THEN {[p EXCEPT !.pc = "idle", !.exit = "cancelled",
                    !.outcome = "cancelled", !.nUnlock = @ + n] : n \in {0, 1}}
    ELSE {Leave(p, "cancelled", 0)}

CancelCycle ==
    /\ rf.stop
    /\ rf.pc = "cycle"
    /\ pl[Local].pc # "idle"
    /\ \E p \in Cancelled(pl[Local]) :
         /\ pl' = [pl EXCEPT ![Local] = p]
         /\ advLock' =
              IF pl[Local].pc = "unlock" /\ advLock[REFRESH_LOCK_KEY] = Me(Local)
              THEN [advLock EXCEPT ![REFRESH_LOCK_KEY] =
                      IF p.nUnlock > pl[Local].nUnlock /\ engine = "pg"
                      THEN NoSession ELSE Ended]
              ELSE advLock
    /\ rf' = [rf EXCEPT !.pc = "cancelling"]
    /\ UNCHANGED <<now, engine, rq, wd, ux, store, last_refresh_ts,
                   seedCommits, fx, cx, cache, rdvars>>

\* CancelledError leaves refresh_if_stale and, not caught by `except
\* Exception`, the task.
TaskEnd ==
    /\ rf.pc = "cancelling"
    /\ pl[Local].pc = "idle"
    /\ rf' = [rf EXCEPT !.pc = "ended", !.how = "cancelled", !.endedAt = now]
    /\ UNCHANGED <<now, engine, rq, wd, ux, store, advLock, last_refresh_ts, pl,
                   seedCommits, fx, cx, cache, rdvars>>

\* Time passes while no task is ready to run.
Elapse ==
    /\ now < MaxUptime
    /\ ~Ready(rf)
    /\ now' = now + 1
    /\ UNCHANGED <<plvars, cache, rdvars>>

Refresher ==
    \/ StartRefresher
    \/ RefresherCycle
    \/ CycleEnd
    \/ Shutdown
    \/ StopWakes
    \/ CancelCycle
    \/ TaskEnd

Tick ==
    /\ now < MaxTime
    /\ now' = now + 1
    /\ UNCHANGED <<plvars, cache, rdvars>>

\* The awaits of an invocation, from the lock attempt to the unlock.
Invocation(i) ==
    \/ TryLock(i)
    \/ CountStep(i)
    \/ FetchStep(i)
    \/ UpsertStep(i)
    \/ PostUpsert(i)
    \/ Unlock(i)

\* The awaits of an invocation in which page_cache.invalidate_all may raise.
FaultyInvocation(i) ==
    \/ TryLock(i)
    \/ CountStep(i)
    \/ FetchStep(i)
    \/ UpsertStep(i)
    \/ \E raises \in BOOLEAN : PostUpsertWith(i, raises)
    \/ Unlock(i)

Pipeline(i) ==
    \/ InitialSyncCall(i)
    \/ RefreshCall(i)
    \/ Invocation(i)

\* Every instance seeds at startup and then refreshes, as time passes.
Next ==
    \/ \E i \in Instances : Pipeline(i)
    \/ Tick

Spec == Init /\ [][Next]_vars

\* The Local instance serving two requests while its refresher runs.
ReadNext ==
    \/ \E r \in {"r1", "r2"} : Reader(r)
    \/ Pipeline(Local)
    \/ Tick

ReadSpec == Init /\ [][ReadNext]_vars

\* The Local instance started with REFRESH_WORKER_ENABLED=0, serving concurrent
\* requests within one tick of the clock.
SingleflightNext ==
    \/ InitialSyncCall(Local)
    \/ Invocation(Local)
    \/ \E r \in Readers : Reader(r)

SingleflightSpec == Init /\ [][SingleflightNext]_vars

\* The seed of the Local instance and then three requests for one key; the
\* event loop runs every coroutine that can run, and every database call
\* returns or raises.
SameKeyNext ==
    \/ InitialSyncCall(Local)
    \/ Invocation(Local)
    \/ \E r \in Readers :
          \/ Request(r, K1)
          \/ Wake(r)
          \/ QTotal(r)
          \/ QPage(r)
          \/ Build(r)

SameKeyFairSpec == Init /\ [][SameKeyNext]_vars /\ WF_vars(SameKeyNext)

\* One call of api.fetch_all_characters against an upstream that answers each
\* request as it likes.
FetchNext ==
    \/ FetchAllCall
    \/ ClientGet
    \/ AsyncSleep

FetchSpec == Init /\ [][FetchNext]_vars

\* One call of api._request_with_retry under each MAX_RETRIES from 0 to
\* MaxBudget, against an upstream that answers each request as it likes.
RetryNext ==
    \/ \E m \in 0..MaxBudget : RequestWithRetryCall(m)
    \/ RetryGet
    \/ RetrySleep

RetrySpec == Init /\ [][RetryNext]_vars

\* One call of api.fetch_all_characters against an upstream that sends no
\* Retry-After; every request is answered (REQUEST_TIMEOUT bounds it) and
\* every sleep ends.
PlainAnswers(page) == {a \in UpstreamAnswers(page) : a.header = NoHeader}

PagingNext ==
    \/ FetchAllCall
    \/ ClientGetFrom(PlainAnswers(fx.page))
    \/ AsyncSleep

PagingSpec == Init /\ [][PagingNext]_vars /\ WF_vars(PagingNext)

\* The seed and the refreshes of the Local instance with a page cache whose
\* invalidate_all may raise, and a request to fill the cache.
InvalidateFaultNext ==
    \/ InitialSyncCall(Local)
    \/ RefreshCall(Local)
    \/ FaultyInvocation(Local)
    \/ \E key \in Keys : Request("r1", key)
    \/ QTotal("r1")
    \/ QPage("r1")
    \/ Build("r1")
    \/ Tick

InvalidateFaultSpec == Init /\ [][InvalidateFaultNext]_vars

\* crud.upsert_characters called with any items, time after time.
UpsertNext == \E items \in UpsertInputs : UpsertCall(items)

UpsertSpec == Init /\ [][UpsertNext]_vars

\* The Local instance from startup to shutdown: the seed, the refresher task
\* and the end of the lifespan.
\* A task whose cancellation is requested is resumed by the CancelledError,
\* not by the answer it awaited.
LifespanNext ==
    \/ InitialSyncCall(Local)
    \/ ~(rf.stop /\ rf.pc = "cycle") /\ Invocation(Local)
    \/ Refresher
    \/ Elapse

LifespanSpec == Init /\ [][LifespanNext]_vars

(***************************************************************************)
(* db.wait_for_db and db.init_db as called by lifespan.  Delays are in     *)
(* half seconds.                                                           *)
(***************************************************************************)
DB_WAIT_BACKOFF_START == 1
DB_WAIT_BACKOFF_MAX == 10
\* The largest DB_WAIT_MAX_ATTEMPTS followed.
MaxWait == 3

\* if attempt >= max_attempts: raise RuntimeError
LastAttempt(attempt, max_attempts) == attempt >= max_attempts

\* attempt = 0; delay = backoff_start; `while attempt < max_attempts` is
\* entered, or the function falls off its end and returns None.
WaitForDbCall(m) ==
    /\ wd.pc = "idle"
    /\ wd' = IF 0 < m
             THEN [IdleWd EXCEPT !.pc = "ping", !.max_attempts = m,
                                 !.delay = DB_WAIT_BACKOFF_START]
             ELSE [IdleWd EXCEPT !.pc = "returned", !.max_attempts = m,
                                 !.delay = DB_WAIT_BACKOFF_START,
                                 !.outcome = "return"]
    /\ UNCHANGED <<engine, rq, ux, rf, fx, cx, now, store, advLock,
                   last_refresh_ts, pl, seedCommits, cache, rdvars>>

\* await ping_db() answers ok: return, or attempt += 1 and then the raise or
\* the sleep.
PingDb(ok) ==
    /\ wd.pc = "ping"
    /\ wd' = IF ok
             THEN [wd EXCEPT !.pc = "returned", !.pings = @ + 1,
                             !.outcome = "return"]
             ELSE LET w == [wd EXCEPT !.pings = @ + 1, !.failed = @ + 1,
                                      !.attempt = @ + 1]
                  IN IF LastAttempt(w.attempt, w.max_attempts)
                     THEN [w EXCEPT !.pc = "raised", !.outcome = "raise"]
                     ELSE [w EXCEPT !.pc = "sleep", !.sleeps = @ + 1]
    /\ UNCHANGED <<engine, rq, ux, rf, fx, cx, now, store, advLock,
                   last_refresh_ts, pl, seedCommits, cache, rdvars>>

\* await asyncio.sleep(delay) returns; delay = min(delay * 2.0, backoff_max);
\* the loop condition holds, or the function falls off its end.
WaitSleep ==
    /\ wd.pc = "sleep"
    /\ LET w == [wd EXCEPT !.delay = Min(@ * 2, DB_WAIT_BACKOFF_MAX)]
       IN wd' = IF w.attempt < w.max_attempts
                THEN [w EXCEPT !.pc = "ping"]
                ELSE [w EXCEPT !.pc = "returned", !.outcome = "return"]
    /\ UNCHANGED <<engine, rq, ux, rf, fx, cx, now, store, advLock,
                   last_refresh_ts, pl, seedCommits, cache, rdvars>>

\* await init_db() after wait_for_db has returned: the schema is there, or
\* the exception leaves lifespan.
InitDb(ok) ==
    /\ wd.pc = "returned"
    /\ wd' = [wd EXCEPT !.pc = IF ok THEN "up" ELSE "init_failed"]
    /\ UNCHANGED <<engine, rq, ux, rf, fx, cx, now, store, advLock,
                   last_refresh_ts, pl, seedCommits, cache, rdvars>>

\* lifespan from its first line: wait_for_db, init_db, then the seed, the
\* refresher and the shutdown.
StartupNext ==
    \/ \E m \in 0..MaxWait : WaitForDbCall(m)
    \/ \E ok \in BOOLEAN : PingDb(ok)
    \/ WaitSleep
    \/ \E ok \in BOOLEAN : InitDb(ok)
    \/ wd.pc = "up" /\ LifespanNext

StartupSpec == Init /\ [][StartupNext]_vars

\* Two requests whose cache calls may raise, after the startup seed.
FaultNext ==
    \/ InitialSyncCall(Local)
    \/ Invocation(Local)
    \/ \E r \in {"r1", "r2"} : FaultyReader(r)

FaultSpec == Init /\ [][FaultNext]_vars

\* The Local PageCache called directly, in any order, as time passes.
CacheNext ==
    \/ \E key \in CacheKeys : CacheGet(key)
    \/ \E key \in CacheKeys, value \in CacheValues : CachePut(key, value)
    \/ CacheInvalidateAll
    \/ Tick

CacheSpec == Init /\ [][CacheNext]_vars

\* Direct calls of all four methods of the Local PageCache, every put with
\* the same value.
LockTableNext ==
    \/ \E key \in CacheKeys : CacheGet(key)
    \/ \E key \in CacheKeys : CachePut(key, BuildResp(K1, <<>>, 0, FALSE))
    \/ CacheInvalidateAll
    \/ \E key \in CacheKeys : LockFor(key)
    \/ Tick

LockTableSpec == Init /\ [][LockTableNext]_vars

(***************************************************************************)
(* Properties                                                              *)
(***************************************************************************)
\* C1 (SingleflightSpec): when callers run the read pattern concurrently for
\* one key, with the cache within TTL and capacity and no read failing, the
\* backing read crud.list_characters is called at most once for that key,
\* exactly once when a caller has been served, and all the callers served
\* return the same response.
C1_Singleflight ==
    \A k \in Keys :
        LET callers == {r \in Readers : rd[r].pc # "new" /\ rd[r].key = k}
            reads == {r \in callers : rd[r].listed}
            served == {r \in callers : rd[r].pc = "done" /\ rd[r].status = 200}
        IN (\A r \in callers : rd[r].status \in {0, 200}) =>
              /\ Cardinality(reads) <= 1
              /\ served # {} => Cardinality(reads) = 1
              /\ \A r1, r2 \in served : rd[r1].resp = rd[r2].resp

\* Three callers of one key have all been served, two of them after waiting
\* for the key's lock, from a single backing read.
C1_Witness ==
    /\ \A r \in Readers :
          rd[r].pc = "done" /\ rd[r].key = K1 /\ rd[r].status = 200
    /\ Cardinality({r \in Readers : rd[r].waited}) = 2
    /\ Cardinality({r \in Readers : rd[r].listed}) = 1

\* C2 (ReadSpec): for every PageKey at most one caller is inside the backing
\* read, and that caller holds the lock registered for the key; a second
\* caller of the key starts its read only after the first has left it.
C2_OneReaderPerKey ==
    \A k \in Keys :
        LET inside == {r \in Readers :
                          /\ rd[r].key = k
                          /\ rd[r].pc \in {"q_total", "q_page", "build"}}
        IN /\ Cardinality(inside) <= 1
           /\ \A r \in inside :
                 /\ k \in DOMAIN locks
                 /\ locks[k] = rd[r].lock
                 /\ lockObj[rd[r].lock].holder = r

\* One caller is between the two statements of the backing read while another
\* caller of the same key waits for the lock.
C2_Witness ==
    \E r1, r2 \in Readers :
        /\ rd[r1].pc = "q_page"
        /\ rd[r2].pc = "waiting"
        /\ rd[r1].key = rd[r2].key

\* C3 (Spec): on an engine with advisory locks, among the invocations whose
\* try-acquire was answered by the database, at most one per lock key is
\* between its try-acquire and its release, and it is one that was granted the
\* lock.
C3_AdvisoryMutex ==
    engine = "pg" =>
        \A k \in LockKeys :
            LET inside == {i \in Instances :
                              /\ LockKeyOf(pl[i].op) = k
                              /\ pl[i].lockRes \in {"true", "false"}
                              /\ pl[i].pc \in {"count", "fetch", "upsert",
                                               "post", "unlock"}}
            IN /\ Cardinality(inside) <= 1
               /\ \A i \in inside : pl[i].lockRes = "true"

\* One instance is upserting under the lock while the other, refused the same
\* lock, has returned.
C3_Witness ==
    /\ engine = "pg"
    /\ \E i, j \in Instances :
          /\ pl[i].pc = "upsert" /\ pl[i].lockRes = "true"
          /\ pl[j].pc = "idle" /\ pl[j].lockRes = "false"
          /\ pl[i].op = pl[j].op

\* C4 (Spec): every invocation that acquired the advisory lock has released it
\* when it returns or propagates; no lock is held by an invocation that has
\* ended.
C4_AlwaysReleased ==
    \A k \in LockKeys :
        /\ advLock[k] # Ended
        /\ \A i \in Instances : advLock[k] = Me(i) => pl[i].pc # "idle"

\* C5 (Spec): _last_refresh_ts of an instance changes only in the step that
\* ends a seed or refresh whose lock phase, (for the seed) emptiness check,
\* fetch and upsert have all succeeded; it becomes the current time and the
\* invocation returns the upserted count.
C5_TimestampOnlyOnSuccess ==
    [][\A i \in Instances :
          last_refresh_ts'[i] # last_refresh_ts[i] =>
              /\ pl[i].pc = "post"
              /\ pl[i].have
              /\ pl[i].op = "seed" => pl[i].nCount = 1
              /\ pl[i].nFetch = 1
              /\ pl[i].nUpsert = 1
              /\ last_refresh_ts'[i] = now
              /\ pl'[i].exit = "return"
              /\ pl'[i].ret = pl[i].n]_vars

\* One instance has completed a refresh path and carries a timestamp; the
\* other's invocation has raised and its timestamp is still unset.
C5_Witness ==
    \E i, j \in Instances :
        /\ pl[i].pc = "idle" /\ pl[i].outcome = "return"
        /\ pl[i].nUpsert = 1 /\ last_refresh_ts[i] # NoTs
        /\ pl[j].pc = "idle" /\ pl[j].outcome = "raise"
        /\ pl[j].nFetch = 1 /\ last_refresh_ts[j] = NoTs

\* C6 (ReadSpec): a request during whose flight the cache was not invalidated
\* (so, one that started after the last invalidation) is never served a
\* response computed from the table as it was before the refresh that
\* invalidated the cache.
C6_NoStaleAfterInvalidate ==
    \A r \in Readers :
        (rd[r].pc = "done" /\ rd[r].status = 200 /\ ~rd[r].before)
            => ~rd[r].resp.late

\* C7 (Spec): on an engine with advisory locks, among the seed invocations
\* whose try-acquire was answered by the database, at most one commits a seed
\* upsert of matching records.
C7_OneSeeder ==
    engine = "pg" => seedCommits <= 1

\* One seed upsert has been committed, and a seed invocation that started while
\* the table was still empty got the lock, found rows and did not fetch.
C7_Witness ==
    /\ engine = "pg"
    /\ seedCommits = 1
    /\ \E i \in Instances :
          /\ pl[i].op = "seed" /\ pl[i].pc = "idle"
          /\ pl[i].lockRes = "true" /\ pl[i].rows0 = 0
          /\ pl[i].nCount = 1 /\ pl[i].nFetch = 0 /\ pl[i].ret = 0

\* C8 (Spec): a seed invocation that completes its upsert returns the number
\* of matching records it fetched (> 0 when there are any); one called when the
\* table already has rows returns 0 without fetching or upserting.
C8_SeedTwice ==
    \A i \in Instances :
        (pl[i].op = "seed" /\ pl[i].pc = "idle" /\ pl[i].outcome = "return") =>
            /\ pl[i].nUpsert = 1 =>
                  /\ pl[i].ret = pl[i].matched
                  /\ pl[i].matched > 0 => pl[i].ret > 0
            /\ pl[i].rows0 > 0 =>
                  /\ pl[i].ret = 0
                  /\ pl[i].nFetch = 0
                  /\ pl[i].nUpsert = 0

\* A first seed has returned its positive count; a second one, called on the
\* table it populated, got the lock, counted, and returned 0.
C8_Witness ==
    \E i, j \in Instances :
        /\ pl[i].op = "seed" /\ pl[i].pc = "idle" /\ pl[i].outcome = "return"
        /\ pl[i].rows0 = 0 /\ pl[i].ret > 0
        /\ pl[j].op = "seed" /\ pl[j].pc = "idle" /\ pl[j].outcome = "return"
        /\ pl[j].rows0 = pl[i].ret /\ pl[j].nCount = 1 /\ pl[j].ret = 0
        /\ count_characters(store) = pl[j].rows0

\* C9 (ReadSpec): an invocation whose try-acquire is refused ends in that
\* step: it returns 0, has made no count, fetch or upsert call, and the step
\* leaves the table, the caches and the timestamps unchanged.
C9_LockUnavailableNoOp ==
    [][\A i \in Instances :
          (pl[i].pc = "trylock" /\ pl'[i].lockRes = "false") =>
              /\ pl'[i].pc = "idle"
              /\ pl'[i].outcome = "return"
              /\ pl'[i].ret = 0
              /\ pl'[i].nCount = 0
              /\ pl'[i].nFetch = 0
              /\ pl'[i].nUpsert = 0
              /\ store' = store
              /\ cache' = cache
              /\ last_refresh_ts' = last_refresh_ts]_vars

\* A refresh of the Local instance has been refused the lock and has returned
\* 0, with rows in the table, a page in the cache and the timestamp set.
C9_Witness ==
    /\ pl[Local].pc = "idle"
    /\ pl[Local].op = "refresh"
    /\ pl[Local].lockRes = "false"
    /\ pl[Local].ret = 0
    /\ store # EmptyStore
    /\ cache[Local] # <<>>
    /\ last_refresh_ts[Local] # NoTs

\* C10 (Spec): a call of refresh_if_stale made while the timestamp is set and
\* not more than REFRESH_TTL old returns 0 in that step, without a lock
\* attempt, a fetch or a write; a call made while the timestamp is unset or
\* more than REFRESH_TTL old goes on to the lock attempt.
C10_FreshShortCircuit ==
    [][\A i \in Instances :
          (pl[i].pc = "idle" /\ pl'[i] # pl[i] /\ pl'[i].op = "refresh") =>
              IF last_refresh_ts[i] = NoTs
                 \/ now - last_refresh_ts[i] > REFRESH_TTL
              THEN pl'[i].pc = "trylock"
              ELSE /\ pl'[i].pc = "idle"
                   /\ pl'[i].outcome = "return"
                   /\ pl'[i].ret = 0
                   /\ pl'[i].lockRes = "none"
                   /\ pl'[i].nCount = 0
                   /\ pl'[i].nFetch = 0
                   /\ pl'[i].nUpsert = 0
                   /\ pl'[i].nUnlock = 0
                   /\ UNCHANGED <<store, advLock, cache, last_refresh_ts>>]_vars

\* A call made exactly REFRESH_TTL after the last refresh has returned 0
\* without a lock attempt.
C10_Witness ==
    \E i \in Instances :
        /\ pl[i].op = "refresh" /\ pl[i].pc = "idle"
        /\ pl[i].lockRes = "none" /\ pl[i].ret = 0
        /\ last_refresh_ts[i] # NoTs
        /\ now - last_refresh_ts[i] = REFRESH_TTL

\* C11 (Spec): an invocation whose pg_try_advisory_lock statement raises goes on
\* to the guarded work exactly as one that was granted the lock (the seed to
\* its count, the refresh to its fetch), and the step of the unlock statement,
\* raising or not, ends the invocation with the exit and the value the body
\* produced.
C11_FailOpen ==
    [][\A i \in Instances :
          /\ (pl[i].pc = "trylock" /\ pl'[i].lockRes = "raised") =>
                /\ pl'[i].have
                /\ pl'[i].pc = IF pl[i].op = "seed" THEN "count" ELSE "fetch"
          /\ (pl[i].pc = "unlock" /\ pl'[i].pc # "unlock") =>
                /\ pl'[i].pc = "idle"
                /\ pl'[i].outcome = pl[i].exit
                /\ pl'[i].ret = pl[i].ret]_vars

\* On an engine without advisory locks, where the lock statement and the
\* unlock statement both raise, a seed has run its guarded work and returned
\* the upserted count after its unlock statement.
C11_Witness ==
    /\ engine = "other"
    /\ \E i \in Instances :
          /\ pl[i].op = "seed" /\ pl[i].pc = "idle"
          /\ pl[i].lockRes = "raised"
          /\ pl[i].nUpsert = 1 /\ pl[i].nUnlock = 1
          /\ pl[i].outcome = "return" /\ pl[i].ret > 0

\* C12 (ReadSpec): a failure of fetch_all_characters or of upsert_characters
\* leaves the body as an exception, and the invocation ends raising it (not
\* returning 0); every step of an invocation that has not upserted, so one whose
\* fetch failed, leaves the table unchanged and the cache as it was.
C12_FailuresPropagate ==
    [][\A i \in Instances :
          /\ (pl[i].pc = "fetch" /\ pl'[i].pc \notin {"fetch", "upsert"}) =>
                pl'[i].exit = "raise"
          /\ (pl[i].pc = "upsert" /\ pl'[i].pc \notin {"upsert", "post"}) =>
                pl'[i].exit = "raise"
          /\ (pl[i].exit = "raise" /\ pl[i].pc = "unlock"
                /\ pl'[i].pc # "unlock") =>
                pl'[i].pc = "idle" /\ pl'[i].outcome = "raise"
          /\ (pl'[i] # pl[i] /\ pl'[i].nUpsert = 0) =>
                store' = store /\ cache' = cache]_vars

\* A refresh whose fetch failed has ended raising, with rows in the table and a
\* page in the cache.
C12_Witness ==
    /\ pl[Local].op = "refresh" /\ pl[Local].pc = "idle"
    /\ pl[Local].nFetch = 1 /\ pl[Local].nUpsert = 0
    /\ pl[Local].outcome = "raise"
    /\ store # EmptyStore
    /\ cache[Local] # <<>>

\* C13 (FetchSpec): for every page whose request has been answered with a
\* success after k retryable answers (429, 5xx or a transport error), k is less
\* than MAX_RETRIES, exactly k + 1 requests were made and exactly k sleeps
\* slept for that page, and the sleep after an answer carrying a Retry-After of
\* n seconds lasted exactly n seconds; when fetch_all_characters returns, it
\* returns the pages' results concatenated in page order.
C13_RetryThenSuccess ==
    /\ \A p \in 1..(MaxPages + 1) :
          LET answers == SelectSeq(fx.seen, LAMBDA e : e.page = p)
              slept == SelectSeq(fx.sleeps, LAMBDA d : d.page = p)
              retried == SelectSeq(answers, LAMBDA e : e.status_code # 200
                                                      /\ e.status_code # 404)
          IN (answers # <<>> /\ answers[Len(answers)].status_code = 200) =>
                /\ Len(retried) < MAX_RETRIES
                /\ Len(answers) = Len(retried) + 1
                /\ Len(slept) = Len(retried)
                /\ \A j \in 1..Len(retried) :
                      (retried[j].status_code # 0
                         /\ retried[j].header.kind = "digits") =>
                          slept[j] = [page |-> p,
                                      halves |-> 2 * retried[j].header.secs,
                                      jitter |-> FALSE]
    /\ fx.outcome = "return" =>
          /\ fx.seen[Len(fx.seen)].status_code = 200
          /\ fx.returned = PagesUpTo(fx.page)

\* The answers were 500, 429 with Retry-After: 1, page 1 with a next link and
\* page 2 without: both pages are returned after two sleeps, the second of
\* exactly one second.
C13_Witness ==
    /\ fx.outcome = "return"
    /\ fx.seen = <<[page |-> 1, status_code |-> 500, header |-> NoHeader],
                   [page |-> 1, status_code |-> 429, header |-> Digits(1)],
                   [page |-> 1, status_code |-> 200, header |-> NoHeader],
                   [page |-> 2, status_code |-> 200, header |-> NoHeader]>>
    /\ fx.returned = <<Beth, Morty, Ghost>>
    /\ Len(fx.sleeps) = 2
    /\ fx.sleeps[2] = [page |-> 1, halves |-> 2, jitter |-> FALSE]

\* C14 (FetchSpec): no page is requested more than MAX_RETRIES times; once
\* MAX_RETRIES requests for a page have all had retryable answers and the last
\* sleep is over, the call has failed with HTTPException 503 (retries
\* exhausted) and returns nothing, not even the pages already fetched; and the
\* call fails that way only after exactly MAX_RETRIES such requests.
C14_Exhausted ==
    LET answers == SelectSeq(fx.seen, LAMBDA e : e.page = fx.page)
        retried == SelectSeq(answers, LAMBDA e : e.status_code = 0
                                                \/ Retryable(e.status_code))
    IN /\ Len(answers) <= MAX_RETRIES
       /\ (Len(retried) = MAX_RETRIES /\ fx.pc # "sleep") =>
             fx.pc = "done" /\ fx.outcome = "exhausted"
       /\ fx.outcome = "exhausted" =>
             /\ fx.pc = "done"
             /\ fx.status = 503
             /\ Len(answers) = MAX_RETRIES
             /\ Len(retried) = MAX_RETRIES
             /\ fx.returned = <<>>
             /\ fx.results = <<>>

\* Page 1 was fetched, then every one of the MAX_RETRIES requests for page 2
\* was answered 500: the call has failed with 503 and returns nothing.
C14_Witness ==
    /\ fx.outcome = "exhausted"
    /\ fx.page = 2
    /\ Len(fx.seen) = 1 + MAX_RETRIES
    /\ \A j \in 2..Len(fx.seen) : fx.seen[j].status_code = 500
    /\ fx.returned = <<>>

\* C15 (FetchSpec): an answer with a non-success status other than 429 and 5xx
\* (404) ends the call at once: it is the last request made, no sleep follows
\* it, and the call fails with that status, not with the 503 of exhausted
\* retries.
C15_TerminalStatus ==
    \A j \in 1..Len(fx.seen) :
        fx.seen[j].status_code = 404 =>
            LET p == fx.seen[j].page
                answers == SelectSeq(fx.seen, LAMBDA e : e.page = p)
                slept == SelectSeq(fx.sleeps, LAMBDA d : d.page = p)
            IN /\ j = Len(fx.seen)
               /\ fx.pc = "done"
               /\ fx.outcome = "status_error"
               /\ fx.status = 404
               /\ Len(slept) = Len(answers) - 1
               /\ fx.returned = <<>>

\* A 404 came as the second answer for page 2, after one retry: the call has
\* failed with 404 after a single sleep for that page.
C15_Witness ==
    /\ fx.outcome = "status_error"
    /\ fx.page = 2
    /\ Len(fx.seen) = 3
    /\ fx.seen[2].status_code = 500
    /\ fx.seen[3].status_code = 404
    /\ Len(fx.sleeps) = 1

\* C16 (CacheSpec): whenever a key was put with value v at time t0 and no put
\* of that key, invalidate_all or eviction of it has happened since, a get of
\* the key now returns v if now - t0 <= PAGE_TTL, and otherwise returns nothing
\* and leaves no entry for the key; and the get that was just made answered
\* so.
C16_FreshOrAbsent ==
    \A k \in DOMAIN cx.put :
        LET g == get(cache[Local], k, now)
            fresh == now - cx.put[k].t0 <= PAGE_TTL
        IN /\ IF fresh
              THEN g.hit /\ g.val = cx.put[k].value
              ELSE ~g.hit /\ ~Has(g.c, k)
           /\ (cx.last.op = "get" /\ cx.last.key = k) =>
                 IF cx.last.hit
                 THEN /\ Has(cache[Local], k)
                      /\ cache[Local][IndexOf(cache[Local], k)].val
                             = cx.put[k].value
                 ELSE ~fresh /\ ~Has(cache[Local], k)

C16_Witness ==
    /\ cx.last.op = "get"
    /\ cx.last.key = K1
    /\ ~cx.last.hit
    /\ K1 \in DOMAIN cx.put
    /\ now - cx.put[K1].t0 = PAGE_TTL + 1
    /\ Has(cache[Local], K2)

\* C17 (CacheSpec): after any sequence of get, put and invalidate_all the cache
\* holds at most PAGE_MAX entries, no two of them for one key.
C17_Capacity ==
    /\ Len(cache[Local]) <= PAGE_MAX
    /\ Cardinality(KeysOf(cache[Local])) = Len(cache[Local])

C17_Witness ==
    /\ cx.last.op = "put"
    /\ cx.last.evicted # {}
    /\ Len(cache[Local]) = PAGE_MAX

\* C18 (CacheSpec): a put evicts exactly the entries that were touched least
\* recently (by a put, or by a get that returned a value) among those in
\* excess of PAGE_MAX, the key being put counting as touched last.
C18_StrictLru ==
    [][(cx'.last.op = "put" /\ <<cache, cx>>' # <<cache, cx>>) =>
          LET key == cx'.last.key
              order == Append(SelectSeq(cx.touched, LAMBDA k : k # key), key)
          IN /\ KeysOf(cache[Local]) = {cx.touched[j] : j \in 1..Len(cx.touched)}
             /\ cx'.last.evicted = {order[j] : j \in 1..(Len(order) - PAGE_MAX)}
      ]_vars

\* A put has evicted an entry stored later than one it kept: the kept one
\* was returned by a get in between.
C18_Witness ==
    /\ cx.last.op = "put"
    /\ cx.last.evicted = {K2}
    /\ Has(cache[Local], K1)
    /\ cx.last.evictedTs > cache[Local][IndexOf(cache[Local], K1)].ts

\* C19 (SingleflightSpec): lock_for hands out one lock per key: different keys
\* are registered with different locks, the lock registered for a key never
\* changes, and the lock a request got from lock_for is the one registered
\* for its key, which a call made now would return again.
C19_LockPerKey ==
    /\ [](/\ \A k1, k2 \in DOMAIN locks : locks[k1] = locks[k2] => k1 = k2
          /\ \A r \in Readers :
                 rd[r].lock # 0 =>
                     /\ rd[r].key \in DOMAIN locks
                     /\ locks[rd[r].key] = rd[r].lock
                     /\ lock_for(locks, lockObj, rd[r].key).lock = rd[r].lock)
    /\ [][\A k \in DOMAIN locks :
              k \in DOMAIN locks' /\ locks'[k] = locks[k]]_vars

\* A request for K1 was answered from the store without waiting, a later one
\* for K1 holds the same registered lock without having waited, and a request
\* for K2 holds another lock.
C19_Witness ==
    /\ rd["r1"].key = K1 /\ rd["r2"].key = K1 /\ rd["r3"].key = K2
    /\ rd["r1"].pc = "done" /\ rd["r1"].listed /\ ~rd["r1"].waited
    /\ rd["r2"].lock # 0 /\ ~rd["r2"].waited
    /\ lockObj[rd["r2"].lock].holder = "r2"
    /\ rd["r3"].lock \notin {0, rd["r2"].lock}

\* C20 (FaultSpec): a page_cache.get or page_cache.put that raises inside the
\* handler never fails the request.  The step in which a cache call raises
\* ends with the request still running or answered with 200; a raising first
\* get or re-check counts as a miss, so the request goes on to the lock or to
\* the store; and the last step of a request that has read the store answers
\* 200 with the response built from what it read, whether put raised or not,
\* a raising put leaving the cache as it was.
C20_CacheErrorsGuarded ==
    [][\A r \in Readers :
          /\ rd'[r].cerr # rd[r].cerr =>
                /\ rd'[r].status \in {0, 200}
                /\ rd[r].cerr \subseteq rd'[r].cerr
          /\ "get" \in rd'[r].cerr \ rd[r].cerr =>
                \/ rd'[r].pc \in {"waiting", "q_total"}
                \/ rd'[r].pc = "done" /\ "recheck" \notin rd'[r].cerr
          /\ "recheck" \in rd'[r].cerr \ rd[r].cerr =>
                rd'[r].pc = "q_total" /\ cache'[Local] = cache[Local]
          /\ (rd[r].pc = "build" /\ rd'[r] # rd[r]) =>
                /\ rd'[r].pc = "done"
                /\ rd'[r].status = 200
                /\ rd'[r].resp = BuildResp(rd[r].key, rd[r].rows, rd[r].total,
                                           rd[r].late)
                /\ "put" \in rd'[r].cerr \ rd[r].cerr =>
                       cache'[Local] = cache[Local]
      ]_vars

\* A request whose first get, re-check and put all raised was answered 200
\* with a page of rows read from the store.
C20_Witness ==
    \E r \in Readers :
        /\ rd[r].pc = "done"
        /\ rd[r].cerr = {"get", "recheck", "put"}
        /\ rd[r].status = 200
        /\ rd[r].resp.results # <<>>
        /\ ~Has(cache[Local], rd[r].key)

\* C21 (LifespanSpec): when the lifespan stops the refresher while it sleeps
\* between cycles, the task leaves its wait before any time passes, whatever is
\* left of the interval, and ends; and once the stop signal is set no call of
\* refresh_if_stale begins.
C21_StopWakesWait ==
    /\ [](rf.at = "waiting" =>
             \/ rf.pc = "waiting" /\ now = rf.stoppedAt
             \/ rf.pc = "ended" /\ rf.endedAt = rf.stoppedAt)
    /\ [][rf.stop => ~(pl[Local].pc = "idle" /\ pl'[Local] # pl[Local])]_vars

\* The task, stopped in the middle of an interval after a cycle, has ended at
\* the time of the stop, before the timeout of its wait.
C21_Witness ==
    /\ rf.pc = "ended"
    /\ rf.at = "waiting"
    /\ rf.prev = "return"
    /\ rf.endedAt = rf.stoppedAt
    /\ rf.endedAt < rf.wakeAt

\* C22 (LifespanSpec): a refresh that is suspended in fetch_all_characters or
\* in upsert_characters when the lifespan ends is not cancelled there: it
\* leaves by its own return or exception, and a refresh whose commit was made
\* sets _last_refresh_ts.
C22_InFlightCompletes ==
    rf.at \in {"fetch", "upsert", "post"} =>
        /\ pl[Local].exit # "cancelled"
        /\ rf.pc = "ended" => pl[Local].outcome \in {"return", "raise"}

\* C23 (UpsertSpec): after any calls of upsert_characters, whatever ids repeat
\* within a call or from call to call, the table has one row for each id
\* given, holding the last record given for that id, and the last call
\* returned the number of items it was given.
C23_UpsertLastWins ==
    /\ DOMAIN store = ux.seen
    /\ count_characters(store) = Cardinality(ux.seen)
    /\ \A id \in ux.seen : store[id] = ux.last[id]
    /\ ux.ret = ux.given

\* Two calls, the second of two items, have left one row: the id was repeated
\* within the call and across the calls, and the call returned 2.
C23_Witness ==
    /\ ux.calls = 2
    /\ ux.given = 2
    /\ ux.ret = 2
    /\ count_characters(store) = 1
    /\ store[1].name = "Morty"

\* C24 (SingleflightSpec): every response reports the row count of the table
\* and total_pages = ceil(total_count / page_size), 0 for an empty table; when
\* the page asked for exceeds total_pages, out_of_range is true and results is
\* empty; and the response that a request has built from the table is put in
\* the cache, out of range or not.
C24_OutOfRange ==
    /\ [](\A r \in Readers :
             (rd[r].pc = "done" /\ rd[r].status = 200) =>
                 LET resp == rd[r].resp
                 IN /\ resp.total_count = count_characters(store)
                    /\ resp.total_pages * resp.page_size >= resp.total_count
                    /\ resp.total_pages * resp.page_size
                           < resp.total_count + resp.page_size
                    /\ resp.page > resp.total_pages =>
                           resp.out_of_range /\ resp.results = <<>>)
    /\ [][\A r \in Readers :
             (rd[r].pc = "build" /\ rd'[r].pc = "done") =>
                 /\ Has(cache'[Local], rd[r].key)
                 /\ cache'[Local][IndexOf(cache'[Local], rd[r].key)].val
                        = rd'[r].resp]_vars

\* C25 (SingleflightSpec): a request waits only for requests for its own key:
\* whoever holds the lock it waits for, or waits for it too, asked for the same
\* key.  A request for another key takes its own lock and reads the table
\* while that lock is held.
C25_DistinctKeysIndependent ==
    \A r1 \in Readers :
        rd[r1].pc = "waiting" =>
            LET l == lockObj[rd[r1].lock]
            IN \A r2 \in Readers \ {r1} :
                  (l.holder = r2 \/ \E j \in 1..Len(l.waiters) : l.waiters[j] = r2)
                      => rd[r2].key = rd[r1].key

\* The reads of the table for K1 and for K2 are in flight together, each
\* holding the lock of its key, neither having waited, while a third request
\* waits for K1.
C25_Witness ==
    /\ rd["r1"].key = K1 /\ rd["r1"].pc = "q_page" /\ ~rd["r1"].waited
    /\ rd["r2"].key = K2 /\ rd["r2"].pc = "q_page" /\ ~rd["r2"].waited
    /\ lockObj[rd["r1"].lock].holder = "r1"
    /\ lockObj[rd["r2"].lock].holder = "r2"
    /\ rd["r3"].key = K1 /\ rd["r3"].pc = "waiting"

C27_CycleErrorSurvived ==
    /\ [][(rf.pc = "cycle" /\ pl[Local].pc = "idle"
           /\ pl[Local].outcome = "raise" /\ rf' # rf) =>
              /\ rf'.pc = "waiting"
              /\ rf'.prev = "raise"
              /\ ~rf'.stop
              /\ rf'.wakeAt = now + REFRESH_INTERVAL]_vars
    /\ [][(rf.pc = "waiting" /\ rf.prev = "raise" /\ ~rf.stop
           /\ rf'.pc # "waiting") =>
              /\ now = rf.wakeAt
              /\ rf'.pc = "cycle"
              /\ pl'[Local].op = "refresh"
              /\ pl'[Local] = RefreshBegin(Local)]_vars
    /\ []((rf.pc = "waiting" /\ ~rf.stop) =>
              now <= rf.wakeAt /\ pl[Local].pc = "idle")

\* After a cycle that raised, and the interval, the next refresh is running.
C27_Witness ==
    /\ rf.prev = "raise"
    /\ rf.pc = "cycle"
    /\ ~rf.stop
    /\ pl[Local].pc = "fetch"
    /\ now = rf.wakeAt

\* C28 (ReadSpec): requests never wait for a seed or refresh.  A request
\* starts to wait only when the lock of its key is held or awaited by another
\* request; a waiting request's lock is held by a request that is reading the
\* table or building its response (steps that nothing disables), or is free
\* with the request first in line; whatever the refresh is doing.
C28_ReadsNotBlocked ==
    /\ [][\A r \in Readers :
             (rd[r].pc = "new" /\ rd'[r].pc = "waiting") =>
                 /\ rd'[r].key \in DOMAIN locks
                 /\ LET l == lockObj[locks[rd'[r].key]]
                    IN l.holder \in Readers \ {r} \/ l.waiters # <<>>]_vars
    /\ [](\A r \in Readers :
             rd[r].pc = "waiting" =>
                 LET l == lockObj[rd[r].lock]
                 IN \/ /\ l.holder \in Readers \ {r}
                       /\ rd[l.holder].pc \in {"q_total", "q_page", "build"}
                    \/ l.holder = NoReader /\ Head(l.waiters) = r)

\* While the refresh is still suspended in its unlock statement, holding the
\* advisory lock, a request that was in flight when it invalidated the cache
\* has been answered from the table, and another is still reading it.
C28_Witness ==
    /\ pl[Local].op = "refresh"
    /\ pl[Local].pc = "unlock"
    /\ advLock[REFRESH_LOCK_KEY] = Me(Local)
    /\ rd["r1"].pc = "done" /\ rd["r1"].status = 200
    /\ rd["r1"].before /\ rd["r1"].listed
    /\ rd["r2"].pc = "q_page" /\ rd["r2"].before

\* C29 (ReadSpec): a seed or refresh goes through its steps in the order lock
\* attempt, (row count,) fetch, upsert and commit, cache invalidation with the
\* setting of _last_refresh_ts, unlock.  The table is written only by the
\* upsert step of an invocation that has fetched; the cache is cleared and the
\* timestamp set only in the step after the commit, with the fetched rows in
\* the table; the unlock statement comes last, and where the upsert was
\* committed and not followed by an error, after the timestamp was set.
C29_FixedOrder ==
    [][\A i \in Instances :
          pl'[i] # pl[i] =>
              /\ pl[i].pc # "idle" => StepRank(pl'[i].pc) > StepRank(pl[i].pc)
              /\ pl[i].pc = "idle" => StepRank(pl'[i].pc) \in {1, 7}
              /\ store' # store =>
                     /\ pl[i].pc = "upsert"
                     /\ pl[i].nFetch = 1
                     /\ pl[i].lockRes # "none"
              /\ cache'[i] # cache[i] =>
                     /\ pl[i].pc = "post"
                     /\ pl[i].nUpsert = 1
                     /\ last_refresh_ts'[i] = now
              /\ last_refresh_ts'[i] # last_refresh_ts[i] =>
                     /\ pl[i].pc = "post"
                     /\ pl[i].nUpsert = 1
                     /\ upsert_characters(store, pl[i].filtered).st = store
                     /\ pl[i].n # 0 => cache'[i] = <<>>
                     /\ pl'[i].pc = "unlock"
                     /\ advLock[LockKeyOf(pl[i].op)] = Me(i)
                            => advLock'[LockKeyOf(pl[i].op)] = Me(i)
              /\ advLock'[LockKeyOf(pl[i].op)] # advLock[LockKeyOf(pl[i].op)] =>
                     \/ pl[i].pc = "trylock"
                     \/ /\ pl[i].pc = "unlock"
                        /\ pl'[i].pc = "idle"
                        /\ (pl[i].exit = "return" /\ pl[i].nUpsert = 1) =>
                               /\ last_refresh_ts[i] # NoTs
                               /\ now >= last_refresh_ts[i]
      ]_vars

\* A refresh that did all its work has ended: it cleared a cache that held a
\* page, set the timestamp and released the lock it had been granted.
C29_Witness ==
    /\ pl[Local].op = "refresh"
    /\ pl[Local].pc = "idle"
    /\ pl[Local].outcome = "return"
    /\ pl[Local].ret = 2
    /\ pl[Local].lockRes = "true"
    /\ pl[Local].nFetch = 1 /\ pl[Local].nUpsert = 1 /\ pl[Local].nUnlock = 1
    /\ advLock[REFRESH_LOCK_KEY] = NoSession
    /\ last_refresh_ts[Local] = now
    /\ \E r \in Readers : rd[r].before

\* C30 (ReadSpec): the step of a seed or refresh that follows the commit
\* clears the page cache of its instance if the upsert count is not zero and
\* leaves it as it is if the count is zero, and sets _last_refresh_ts in both
\* cases; no other step of a seed or refresh changes the cache.
C30_InvalidateIffUpserted ==
    [][\A i \in Instances :
          pl'[i] # pl[i] =>
              IF pl[i].pc = "post"
              THEN /\ pl[i].n # 0 => cache'[i] = <<>>
                   /\ pl[i].n = 0 => cache'[i] = cache[i]
                   /\ last_refresh_ts'[i] = now
                   /\ pl'[i].exit = "return"
                   /\ pl'[i].ret = pl[i].n
              ELSE cache'[i] = cache[i]
      ]_vars

\* A refresh whose fetch brought no character to upsert has set the timestamp
\* and left a cached page in place.
C30_Witness ==
    /\ pl[Local].op = "refresh"
    /\ pl[Local].pc = "unlock"
    /\ pl[Local].exit = "return"
    /\ pl[Local].nUpsert = 1
    /\ pl[Local].n = 0
    /\ last_refresh_ts[Local] = now
    /\ cache[Local] # <<>>

(***************************************************************************)
(* Claims about the delays of _request_with_retry.                         *)
(***************************************************************************)
\* C31 (RetrySpec): with b(k) = min(0.5 * 2^(k-1), 8) seconds, the backoff
\* value during the k-th attempt and the sleep that follows it is b(k),
\* whatever the earlier sleeps of the call were taken from, and it is b(k + 1)
\* after the last of k attempts; it never exceeds 8 seconds; and a sleep that
\* follows a retryable response without a valid Retry-After is the k-th sleep
\* of the call and lasts b(k) plus a jitter of at least 0 and less than 0.25
\* seconds.  Backoff values are in half seconds, delays in eighths.
C31_BackoffDelay ==
    LET b(k) == Min(2 ^ (k - 1), 16)
    IN /\ rq.pc \in {"get", "sleep"} => rq.backoff = b(rq.attempt)
       /\ (rq.pc = "done" /\ rq.outcome = "exhausted") =>
             rq.backoff = b(rq.max + 1)
       /\ rq.backoff <= 16
       /\ (rq.pc = "sleep" /\ rq.via = "backoff") =>
             /\ rq.sleeps = rq.attempt
             /\ rq.delay - 4 * b(rq.sleeps) >= 0
             /\ rq.delay - 4 * b(rq.sleeps) < 2

\* The sixth attempt of a call that has slept a Retry-After before got a 503
\* without the header: the call sleeps the capped 8 seconds plus 0.125.
C31_Witness ==
    /\ rq.pc = "sleep"
    /\ rq.via = "backoff"
    /\ rq.attempt = 6
    /\ rq.honoured >= 1
    /\ rq.answer = [status_code |-> 503, header |-> NoHeader]
    /\ rq.delay = 65

\* C32 (RetrySpec): after a 429 or 5xx response whose Retry-After is a string
\* of digits for n seconds, the call sleeps exactly n seconds, and after one
\* whose Retry-After is an HTTP-date d seconds from now it sleeps exactly
\* max(0, d) seconds, in both cases without jitter and without the cap of 8
\* seconds; after a 429 or 5xx response whose Retry-After is absent or is
\* neither of the two, the call sleeps the backoff value plus a jitter of less
\* than 0.25 seconds, so that such a response ends the call only when the
\* attempts are exhausted.
C32_RetryAfterHonoured ==
    LET h == rq.answer.header
        parseable == h.kind \in {"digits", "date"}
    IN /\ (rq.pc = "sleep" /\ rq.via # "transport") =>
             /\ h.kind = "digits" => rq.delay = 8 * h.secs
             /\ h.kind = "date" =>
                   rq.delay = 8 * (IF h.secs > 0 THEN h.secs ELSE 0)
             /\ ~parseable =>
                   /\ rq.delay - Eighths(rq.backoff) >= 0
                   /\ rq.delay - Eighths(rq.backoff) < 2
       /\ (Retryable(rq.answer.status_code) /\ ~parseable) =>
             \/ rq.pc \in {"sleep", "get"}
             \/ rq.pc = "done" /\ rq.outcome = "exhausted"

C34_PagesInOrder ==
    /\ [](/\ fx.seen # <<>> => fx.seen[1].page = 1
          /\ \A j \in 1..(Len(fx.seen) - 1) :
                fx.seen[j + 1].page =
                    IF fx.seen[j].status_code = 200
                    THEN fx.seen[j].page + 1 ELSE fx.seen[j].page
          /\ fx.pc = "get" => fx.page = 1 + Cardinality(
                {j \in 1..Len(fx.seen) : fx.seen[j].status_code = 200})
          /\ fx.pc = "done" =>
                \/ /\ fx.outcome = "return"
                   /\ ~fx.more
                   /\ fx.seen[Len(fx.seen)].status_code = 200
                   /\ fx.returned = PagesUpTo(fx.page)
                \/ fx.outcome \in {"exhausted", "status_error"})
    /\ [][(/\ fx.pc = "get"
           /\ fx'.seen # fx.seen
           /\ fx'.seen[Len(fx'.seen)].status_code = 200) =>
             IF fx'.more
             THEN /\ fx'.pc = "get"
                  /\ fx'.page = fx.page + 1
                  /\ fx'.results = fx.results \o PageResults(fx.page)
             ELSE /\ fx'.pc = "done"
                  /\ fx'.outcome = "return"
                  /\ fx'.returned = fx.results \o PageResults(fx.page)]_vars
    /\ <>(fx.pc = "done")

\* Page 1 was answered with an info.next and, after a 500, page 2 without:
\* the call has returned the two pages in order.
C34_Witness ==
    /\ fx.outcome = "return"
    /\ fx.page = 2
    /\ ~fx.more
    /\ fx.seen = <<[page |-> 1, status_code |-> 200, header |-> NoHeader],
                   [page |-> 2, status_code |-> 500, header |-> NoHeader],
                   [page |-> 2, status_code |-> 200, header |-> NoHeader]>>
    /\ fx.returned = <<Beth, Morty, Ghost>>

C40_BudgetPerPage ==
    LET mine == Cardinality({j \in 1..Len(fx.seen) : fx.seen[j].page = fx.page})
    IN /\ fx.pc = "get" =>
             /\ fx.attempt = mine + 1
             /\ fx.backoff = Min(2 ^ mine, 16)
             /\ mine = 0 => (fx.attempt = 1 /\ fx.backoff = 1)
       /\ fx.pc = "sleep" =>
             /\ fx.attempt = mine
             /\ fx.sleeps[Len(fx.sleeps)].page = fx.page
             /\ fx.sleeps[Len(fx.sleeps)].halves # fx.backoff =>
                   ~fx.sleeps[Len(fx.sleeps)].jitter
       /\ fx.attempt <= MAX_RETRIES
       /\ Len(fx.seen) <= fx.page * MAX_RETRIES
       /\ fx.outcome = "exhausted" =>
             /\ mine = MAX_RETRIES
             /\ fx.pc = "done"
             /\ fx.status = 503
             /\ fx.returned = <<>>
             /\ fx.results = <<>>

\* Page 1 took all of its attempts and succeeded on the last; page 2 started
\* from the first attempt again and exhausted its own: MaxPages * MAX_RETRIES
\* requests were made and the call returns nothing.
C40_Witness ==
    /\ fx.outcome = "exhausted"
    /\ fx.page = MaxPages
    /\ Len(fx.seen) = MaxPages * MAX_RETRIES
    /\ fx.seen[MAX_RETRIES] = [page |-> 1, status_code |-> 200,
                               header |-> NoHeader]
    /\ fx.sleeps[MAX_RETRIES] = [page |-> 2, halves |-> 1, jitter |-> TRUE]
    /\ fx.returned = <<>>

C36_FailureReleases ==
    /\ [](/\ \A j \in 1..Len(cache[Local]) :
                /\ cache[Local][j].val # NoResp
                /\ cache[Local][j].val.page = cache[Local][j].key.page
          /\ \A r1, r2 \in Readers :
                (/\ r1 # r2
                 /\ rd[r1].pc \in {"q_total", "q_page", "build"}
                 /\ rd[r2].pc \in {"q_total", "q_page", "build"}) =>
                    rd[r1].key # rd[r2].key)
    /\ [][\A r \in Readers :
            /\ (/\ rd[r].pc \in {"q_total", "q_page"}
                /\ rd'[r].pc = "done") =>
                  /\ rd'[r].status \in {400, 503, 500}
                  /\ rd'[r].resp = NoResp
                  /\ lockObj'[rd[r].lock].holder = NoReader
                  /\ lockObj'[rd[r].lock].waiters = lockObj[rd[r].lock].waiters
                  /\ cache' = cache
                  /\ rd[r].key \notin KeysOf(cache'[Local])
            /\ (/\ rd[r].pc = "waiting"
                /\ rd'[r].pc # "waiting") =>
                  /\ lockObj[rd[r].lock].holder = NoReader
                  /\ IF rd[r].key \in KeysOf(cache[Local])
                     THEN rd'[r].pc = "done" /\ rd'[r].status = 200
                     ELSE /\ rd'[r].pc = "q_total"
                          /\ lockObj'[rd[r].lock].holder = r]_vars
    /\ \A r \in Readers : (rd[r].pc = "waiting") ~> (rd[r].pc # "waiting")

\* r1 held the lock of a key and failed with 503 while r2 and r3 waited for
\* it; r2 then read the table itself and failed with 500, and r3 read it and
\* was answered.
C36_Witness ==
    /\ rd["r1"].pc = "done" /\ rd["r1"].status = 503
    /\ rd["r2"].pc = "done" /\ rd["r2"].status = 500
    /\ rd["r3"].pc = "done" /\ rd["r3"].status = 200
    /\ rd["r2"].waited /\ rd["r2"].listed
    /\ rd["r3"].waited /\ rd["r3"].listed
    /\ rd["r1"].key = rd["r2"].key /\ rd["r2"].key = rd["r3"].key
    /\ ~rd["r1"].waited

(***************************************************************************)
(* Claims about the lock table of the page cache.                          *)
(***************************************************************************)
\* C37 (LockTableSpec): a key once registered in _locks stays registered with
\* the same lock through every step; a call of get, put or invalidate_all
\* leaves _locks and the locks themselves as they were, whether it returns,
\* expires, evicts or clears entries; a call of lock_for for a registered key
\* returns the registered lock; and there are never more locks than
\* registered keys, each key having a lock of its own.
C37_LockTableStable ==
    /\ [](/\ Len(lockObj) = Cardinality(DOMAIN locks)
          /\ \A k1, k2 \in DOMAIN locks :
                /\ locks[k1] \in 1..Len(lockObj)
                /\ k1 # k2 => locks[k1] # locks[k2])
    /\ [][/\ \A k \in DOMAIN locks :
                k \in DOMAIN locks' /\ locks'[k] = locks[k]
          /\ (/\ cx'.last.op \in {"get", "put", "invalidate_all"}
              /\ (cx' # cx \/ cache' # cache)) =>
                (locks' = locks /\ lockObj' = lockObj)
          /\ (cx'.last.op = "lock_for" /\ cx'.last.key \in DOMAIN locks) =>
                cx'.last.lock = locks[cx'.last.key]]_vars

\* invalidate_all has just cleared a store that held entries while the locks
\* of all three keys were registered: they still are.
C37_Witness ==
    /\ cx.last.op = "invalidate_all"
    /\ cache[Local] = <<>>
    /\ DOMAIN locks = CacheKeys
    /\ Len(lockObj) = 3
    /\ now = 1

(***************************************************************************)
(* Claims about the advisory unlock.                                       *)
(***************************************************************************)
\* C39 (Spec): an invocation whose pg_try_advisory_lock answered false is
\* never at its unlock statement and has issued none; an invocation that is
\* at its unlock statement or has issued it got the lock or failed open (the
\* statement answered true or NULL, or raised); and an advisory lock that an
\* instance holds changes hands only in a step of that instance.
C39_LoserNeverUnlocks ==
    /\ [](\A i \in Instances :
            /\ pl[i].lockRes = "false" =>
                  /\ ~pl[i].have
                  /\ pl[i].pc \in {"trylock", "idle"}
                  /\ pl[i].nUnlock = 0
            /\ (pl[i].pc = "unlock" \/ pl[i].nUnlock > 0) =>
                  /\ pl[i].have
                  /\ pl[i].lockRes \in {"true", "null", "raised"}
                  /\ pl[i].nUnlock <= 1)
    /\ [][\A k \in LockKeys, i \in Instances :
            (advLock[k] = Me(i) /\ advLock'[k] # advLock[k]) =>
                /\ pl[i].pc = "unlock"
                /\ pl'[i].nUnlock = pl[i].nUnlock + 1
                /\ \A j \in Instances \ {i} : pl'[j] = pl[j]]_vars

\* One instance holds the seed lock and is fetching; the other one's attempt
\* answered false and it has returned 0 without an unlock.
C39_Witness ==
    \E i, j \in Instances :
        /\ i # j
        /\ advLock[SEED_LOCK_KEY] = Me(i)
        /\ pl[i].op = "seed" /\ pl[i].pc = "fetch"
        /\ pl[j].op = "seed" /\ pl[j].lockRes = "false"
        /\ pl[j].pc = "idle" /\ pl[j].outcome = "return" /\ pl[j].ret = 0
        /\ pl[j].nUnlock = 0

====
